---- MODULE Spec2Model ----
(***************************************************************************)
(* Model of the agentic chat runtime of edu-agentic-rag (chatbot-service): *)
(* the plan sorter, the session tool cache, the tool executor and the      *)
(* request handler of the orchestrator; and of its rag-service: indexing,  *)
(* the BM25 index and the hybrid search.                                   *)
(***************************************************************************)
EXTENDS Integers, Sequences, FiniteSets, TLC

(***************************************************************************)
(* Bounds of the model.                                                    *)
(***************************************************************************)
\* longest task list handed to the sorter in TopoSpec
MaxTasks == 3
\* longest depends_on list of a task in TopoSpec
MaxDeps == 2
\* number of requests handled in Spec
MaxRequests == 2
\* number of times the clock advances
MaxTicks == 1
\* number of store operations in StoreSpec
MaxStoreOps == 4
\* number of turns recorded in CtxSpec
MaxTurns == 21
\* number of words of a message, and of rounds of adding words to it
MaxWords == 2
MaxAdds == 1
\* number of turns recorded and of get_or_create_session calls in RaceSpec
MaxRaceTurns == 2
MaxRaceCalls == 2
\* largest n asked of get_recent_turns
MaxRecent == 2
\* documents in the BM25 index, hits of a vector search, hits of both
\* together, largest top_k and largest score of a document in the search specs
MaxDocs == 3
MaxVecHits == 3
MaxHits == 4
MaxTopK == 2
MaxScore == 2
\* most arguments of a tool call in KeySpec
MaxArgs == 3

(***************************************************************************)
(* Tasks.  A task is the dict the planner returns: id, text, tool, args,   *)
(* depends_on.  NoId stands for a missing, null or empty id (falsy).       *)
(***************************************************************************)
NoId == ""
Ids == {"a", "b", "c"}

\* membership in a sequence
InSeq(x, s) == \E n \in DOMAIN s : s[n] = x

(***************************************************************************)
(* Orchestrator._agentic_topo_sort                                         *)
(***************************************************************************)
\* keys of by_id, in dict order: the first occurrence of every truthy id
RECURSIVE by_id_keys_from(_, _)
by_id_keys_from(tasks, acc) ==
    IF tasks = <<>> THEN acc
    ELSE LET t == Head(tasks)
         IN by_id_keys_from(Tail(tasks),
                IF t.id = NoId \/ InSeq(t.id, acc) THEN acc ELSE Append(acc, t.id))

by_id_keys(tasks) == by_id_keys_from(tasks, <<>>)

\* (variant) by_id keeps the FIRST task carrying the key
by_id_get_first(tasks, tid) ==
    tasks[CHOOSE n \in DOMAIN tasks :
            /\ tasks[n].id = tid
            /\ \A m \in DOMAIN tasks : m < n => tasks[m].id # tid]

\* by_id[tid]: a dict comprehension keeps the LAST task carrying the key
by_id_get(tasks, tid) ==
    tasks[CHOOSE n \in DOMAIN tasks :
            /\ tasks[n].id = tid
            /\ \A m \in DOMAIN tasks : m > n => tasks[m].id # tid]

by_id_has(tasks, tid) == tid # NoId /\ \E n \in DOMAIN tasks : tasks[n].id = tid

RECURSIVE dfs(_, _, _)
RECURSIVE dfs_deps(_, _, _)

\* (variant) dfs that emits the task before it descends into its dependencies
dfs_preorder(tasks, tid, st) ==
    IF tid \in st.visited THEN st
    ELSE IF tid \in st.visiting THEN st
    ELSE LET t  == by_id_get(tasks, tid)
             s1 == [st EXCEPT !.visiting = @ \cup {tid}, !.out = Append(@, t)]
             s2 == dfs_deps(tasks, t.depends_on, s1)
         IN [visiting |-> s2.visiting \ {tid},
             visited  |-> s2.visited \cup {tid},
             out      |-> s2.out]

\* dfs(tid) over the state (visiting, visited, out)
dfs(tasks, tid, st) ==
    IF tid \in st.visited THEN st
    ELSE IF tid \in st.visiting THEN st
    ELSE LET t  == by_id_get(tasks, tid)
             s1 == [st EXCEPT !.visiting = @ \cup {tid}]
             s2 == dfs_deps(tasks, t.depends_on, s1)
         IN [visiting |-> s2.visiting \ {tid},
             visited  |-> s2.visited \cup {tid},
             out      |-> Append(s2.out, t)]

dfs_deps(tasks, deps, st) ==
    IF deps = <<>> THEN st
    ELSE LET d == Head(deps)
         IN dfs_deps(tasks, Tail(deps),
                IF by_id_has(tasks, d) THEN dfs(tasks, d, st) ELSE st)

RECURSIVE dfs_all(_, _, _)
dfs_all(tasks, keys, st) ==
    IF keys = <<>> THEN st
    ELSE dfs_all(tasks, Tail(keys), dfs(tasks, Head(keys), st))

\* the trailing pass that drops a second occurrence of an id
RECURSIVE stable_from(_, _, _)
stable_from(out, seen, acc) ==
    IF out = <<>> THEN acc
    ELSE LET t == Head(out)
         IN IF t.id \in seen THEN stable_from(Tail(out), seen, acc)
            ELSE stable_from(Tail(out), seen \cup {t.id}, Append(acc, t))

agentic_topo_sort(tasks) ==
    LET st == dfs_all(tasks, by_id_keys(tasks),
                      [visiting |-> {}, visited |-> {}, out |-> <<>>])
    IN stable_from(st.out, {}, <<>>)

(***************************************************************************)
(* Optional values: None is the empty set, a value x is {x}.               *)
(***************************************************************************)
None == {}
Some(x) == {x}
The(opt) == CHOOSE x \in opt : TRUE

(***************************************************************************)
(* Tool registry (tool_executor.py).                                       *)
(***************************************************************************)
DEFAULT_TOOL_SPECS ==
    << [name |-> "weather.get",       ttl |-> Some(300)],
       [name |-> "calendar.get",      ttl |-> Some(60)],
       [name |-> "calendar.create",   ttl |-> None],
       [name |-> "file.search",       ttl |-> Some(120)],
       [name |-> "notification.send", ttl |-> None],
       [name |-> "rag.query",         ttl |-> Some(120)] >>

\* (variant) a registry in which every tool has a TTL
TOOL_SPECS_all_ttl ==
    [n \in DOMAIN DEFAULT_TOOL_SPECS |->
        [name |-> DEFAULT_TOOL_SPECS[n].name,
         ttl  |-> IF DEFAULT_TOOL_SPECS[n].ttl = None THEN Some(300)
                  ELSE DEFAULT_TOOL_SPECS[n].ttl]]

tools == DEFAULT_TOOL_SPECS

ToolNames == {tools[n].name : n \in DOMAIN tools}

\* ToolExecutor.tool_ttl: the ttl of the first ToolDef with the name, else None
tool_ttl(tool_name) ==
    LET hits == {n \in DOMAIN tools : tools[n].name = tool_name}
    IN IF hits = {} THEN None
       ELSE tools[CHOOSE n \in hits : \A m \in hits : n <= m].ttl

(***************************************************************************)
(* Context store (context_manager.py): sessions and the tool cache.        *)
(***************************************************************************)
session_timeout_hours == 24
SecondsPerHour == 3600

\* args are an insertion-ordered dict: a sequence of key/value pairs
ArgKeys == <<"city", "start_time", "text", "title">>
KeyRank(k) == CHOOSE n \in DOMAIN ArgKeys : ArgKeys[n] = k

\* json.dumps(args, sort_keys=True): the pairs in key order
sort_keys(args) ==
    [n \in DOMAIN args |->
        CHOOSE p \in {args[m] : m \in DOMAIN args} :
            Cardinality({q \in {args[m] : m \in DOMAIN args} :
                            KeyRank(q.k) < KeyRank(p.k)}) = n - 1]

\* (variant) the key built from the args in the order they were given
make_cache_key_unsorted(tool_name, args) == [tool |-> tool_name, args_s |-> args]

\* ContextManager.make_cache_key: "<tool>:<canonical json of args>"
make_cache_key(tool_name, args) == [tool |-> tool_name, args_s |-> sort_keys(args)]

new_session(t) == [last_activity |-> t, turns |-> 0, tool_cache |-> << >>]

\* ContextManager._ensure_tool_cache: the session table after the call
ensure_tool_cache(ss, sid, t) ==
    IF ss[sid] = None THEN [ss EXCEPT ![sid] = Some(new_session(t))] ELSE ss

\* (variant) an entry is fresh only while its age is below the ttl
cache_lookup_strict(cache, cache_key, ttl_seconds, t) ==
    IF cache_key \notin DOMAIN cache THEN None
    ELSE IF \E ttl \in ttl_seconds : t - cache[cache_key].ts >= ttl THEN None
    ELSE Some(cache[cache_key].value)

\* ContextManager.get_cached_tool_result, on the session's cache dict
cache_lookup(cache, cache_key, ttl_seconds, t) ==
    IF cache_key \notin DOMAIN cache THEN None
    ELSE IF \E ttl \in ttl_seconds : t - cache[cache_key].ts > ttl THEN None
    ELSE Some(cache[cache_key].value)

get_cached_tool_result(ss, sid, cache_key, ttl_seconds, t) ==
    cache_lookup(The(ensure_tool_cache(ss, sid, t)[sid]).tool_cache,
                 cache_key, ttl_seconds, t)

\* (variant) a write that leaves the cache as it was
cache_store_nothing(cache, cache_key, value, t) == cache

\* tool_cache[cache_key] = {"ts": time.time(), "value": value}
cache_store(cache, cache_key, value, t) ==
    [k \in DOMAIN cache \cup {cache_key} |->
        IF k = cache_key THEN [ts |-> t, value |-> value] ELSE cache[k]]

\* ContextManager.set_cached_tool_result: the session table after the call
set_cached_tool_result(ss, sid, cache_key, value, t) ==
    LET s1 == ensure_tool_cache(ss, sid, t)
    IN [s1 EXCEPT ![sid] =
          Some([The(s1[sid]) EXCEPT !.tool_cache = cache_store(@, cache_key, value, t)])]

\* get_or_create_session(session_id): touch a known session, create an unknown one
get_or_create_session(ss, sid, t) ==
    IF ss[sid] # None
    THEN [ss EXCEPT ![sid] = Some([The(ss[sid]) EXCEPT !.last_activity = t])]
    ELSE [ss EXCEPT ![sid] = Some(new_session(t))]

\* ContextManager.add_conversation_turn: creates the session if missing,
\* appends the turn and updates the activity
add_conversation_turn(ss, sid, t) ==
    LET s1 == ensure_tool_cache(ss, sid, t)
    IN [s1 EXCEPT ![sid] =
          Some([The(s1[sid]) EXCEPT !.turns = @ + 1, !.last_activity = t])]

\* the sessions cleanup_expired_sessions removes
expired(ss, t) ==
    {sid \in DOMAIN ss :
        ss[sid] # None
        /\ t - The(ss[sid]).last_activity > session_timeout_hours * SecondsPerHour}

(***************************************************************************)
(* State.                                                                  *)
(***************************************************************************)
VARIABLES
    tin,            \* TopoSpec: the task list given to the sorter
    tout,           \* TopoSpec: what the sorter returned, or Unsorted
    now,            \* time.time(), in seconds
    ticks,          \* how often the clock has advanced
    sessions,       \* context_manager.active_sessions: session id -> optional session
    stored,         \* history: tool call -> [at, value] of the last result stored
                    \*   for the call in the session's present lifetime
    got,            \* StoreSpec: the get_cached_tool_result call made by the last
                    \*   step and its result, if the last step made one
    nops,           \* StoreSpec: store operations done
    llm,            \* llm_service.is_enabled()
    pc,             \* where the request handler is
    nreq,           \* requests started
    current_tasks,  \* execute_plan: current_tasks
    i,              \* execute_plan: i
    replans,        \* execute_plan: replans
    observations,   \* execute_plan: observations
    used_tools,     \* execute_plan: used_tools
    rule_todo,      \* rule-based branch: the downstream calls still to make
    llm_error,      \* handle: llm_error, the text of the exception or None
    todo,           \* _agentic_run: todo
    meta,           \* handle: the meta of the response, once it is built;
                    \*   stream: the analysis and plan of the rule-based part
    events,         \* stream: the events yielded so far
    outcome,        \* how handle ended: a response, or a raised exception
    answer,         \* the parts of the response text handle returned
    calls,          \* history: the downstream HTTP calls of this request
    trace,          \* history: the pipeline events of this request
    last,           \* history: what the last executor step did
    active_sessions,  \* CtxSpec: context_manager.active_sessions with the turns
    context_windows,  \* CtxSpec: context_manager.context_windows
    recent,         \* CtxSpec: the get_recent_turns call made by the last step
    goc,            \* RaceSpec: where a get_or_create_session call is
    nturns,         \* CtxSpec: turns appended so far
    user_input,     \* ClassifySpec: the user's message, a set of words
    analysis,       \* ClassifySpec: what the classifier returned for it
    before,         \* ClassifySpec: user_input and analysis before words were added
    bm25,           \* rag-service: BM25Index._docs, the documents of _bm25 in order
    bm25_lock,      \* rag-service: who holds _bm25_lock
    building,       \* rag-service: where a build of _bm25 is
    qdrant,         \* rag-service: the points of the collection
    rag_in,         \* rag-service: the inputs of the call under check
    rag_out,        \* rag-service: what the last call returned or read
    ensuring        \* rag-service: where a rebuild of _bm25 from the collection is

topoVars  == <<tin, tout>>
storeVars == <<now, ticks, sessions, stored>>
probeVars == <<got, nops>>
reqVars   == <<llm, pc, nreq, current_tasks, i, replans, observations, used_tools,
               rule_todo, llm_error, todo, meta, events, outcome, answer, calls, trace, last>>
ctxVars   == <<active_sessions, context_windows, recent, goc, nturns>>
clsVars   == <<user_input, analysis, before>>
ragVars   == <<bm25, bm25_lock, building, qdrant, rag_in, rag_out, ensuring>>
vars == <<topoVars, storeVars, probeVars, reqVars, ctxVars, clsVars, ragVars>>

Unsorted == "unsorted"

(***************************************************************************)
(* Initial state: a fresh process, no session, no request.                 *)
(***************************************************************************)
SessionIds == {"s1"}
Results == {"r1", "r2"}

InitStore ==
    /\ now = 0
    /\ ticks = 0
    /\ sessions = [sid \in SessionIds |-> None]
    /\ stored = << >>

InitProbe ==
    /\ got = None
    /\ nops = 0

InitReq ==
    /\ pc = "idle"
    /\ nreq = 0
    /\ current_tasks = << >>
    /\ i = 0
    /\ replans = 0
    /\ observations = << >>
    /\ used_tools = {}
    /\ rule_todo = << >>
    /\ llm_error = None
    /\ todo = << >>
    /\ meta = None
    /\ events = << >>
    /\ outcome = "none"
    /\ answer = {}
    /\ calls = << >>
    /\ trace = << >>
    /\ last = [kind |-> "none"]

\* the sessions a client may name
CtxSessionIds == {"s1", "s2"}

\* rag-service at start: an empty index, an empty collection, no call
\* no rebuild of _bm25 from the collection is under way; overlapped and
\* installed are history: whether an index request ran during the last
\* rebuild, and the ids that rebuild put into the index
resting == [at |-> "idle", docs |-> << >>, overlapped |-> FALSE, installed |-> {}]

InitRag ==
    /\ bm25 = << >>
    /\ bm25_lock = "free"
    /\ building = [at |-> "idle", who |-> "none", pending |-> << >>, whole |-> << >>]
    /\ qdrant = {}
    /\ rag_in = None
    /\ rag_out = None
    /\ ensuring = resting

\* no message has been classified
InitCls ==
    /\ user_input = {}
    /\ analysis = None
    /\ before = None

\* ContextManager.__init__: both tables start empty
InitCtx ==
    /\ active_sessions = [sid \in CtxSessionIds |-> None]
    /\ context_windows = [sid \in CtxSessionIds |-> None]
    /\ recent = None
    /\ goc = [at |-> "idle"]
    /\ nturns = 0

(***************************************************************************)
(* The clock and the reclaimer thread.                                     *)
(***************************************************************************)
\* the clock advances by a tool's TTL or past the session timeout
Deltas == {300, session_timeout_hours * SecondsPerHour + 1}

Tick ==
    /\ ticks < MaxTicks
    /\ \E d \in Deltas : now' = now + d
    /\ ticks' = ticks + 1
    /\ got' = None
    /\ UNCHANGED <<ctxVars, sessions, stored, nops, topoVars, reqVars, clsVars, ragVars>>

\* a tool call up to the order of its argument keys
Canon(tool_name, args) == [tool |-> tool_name, args |-> {args[n] : n \in DOMAIN args}]

\* the history records a result stored for a call
remember(call, value) ==
    [c \in DOMAIN stored \cup {call} |->
        IF c = call THEN [at |-> now, value |-> value] ELSE stored[c]]

\* the history forgets what was stored in a session that is gone
forget(ss) == IF \E sid \in DOMAIN ss : ss[sid] # None THEN stored ELSE << >>

\* ContextManager.cleanup_expired_sessions, run by the hourly worker thread
Cleanup ==
    /\ expired(sessions, now) # {}
    /\ sessions' = [sid \in DOMAIN sessions |->
                       IF sid \in expired(sessions, now) THEN None ELSE sessions[sid]]
    /\ stored' = forget(sessions')
    /\ got' = None
    /\ UNCHANGED <<ctxVars, now, ticks, nops, topoVars, reqVars, clsVars, ragVars>>

(***************************************************************************)
(* StoreSpec: the cache operations of one session called directly.         *)
(***************************************************************************)
\* the tool calls StoreSpec caches: one of them with its keys in two orders
ProbeCalls ==
    {[tool |-> "weather.get", args |-> <<[k |-> "city", v |-> "seoul"]>>],
     [tool |-> "calendar.create",
      args |-> <<[k |-> "title", v |-> "sync"], [k |-> "start_time", v |-> "15:00"]>>],
     [tool |-> "calendar.create",
      args |-> <<[k |-> "start_time", v |-> "15:00"], [k |-> "title", v |-> "sync"]>>]}

ProbeTtls == {None} \cup {tools[n].ttl : n \in DOMAIN tools} \cup {Some(600)}

StoreSet ==
    /\ nops < MaxStoreOps
    /\ \E sid \in SessionIds, c \in ProbeCalls, value \in Results :
          /\ sessions' = set_cached_tool_result(
                            sessions, sid, make_cache_key(c.tool, c.args), value, now)
          /\ stored' = remember(Canon(c.tool, c.args), value)
    /\ nops' = nops + 1
    /\ got' = None
    /\ UNCHANGED <<ctxVars, now, ticks, topoVars, reqVars, clsVars, ragVars>>

StoreGet ==
    /\ nops < MaxStoreOps
    /\ \E sid \in SessionIds, c \in ProbeCalls, ttl \in ProbeTtls :
          /\ got' = Some([call |-> Canon(c.tool, c.args), ttl |-> ttl,
                          res |-> get_cached_tool_result(
                                     sessions, sid, make_cache_key(c.tool, c.args), ttl,
                   now)])
          /\ sessions' = ensure_tool_cache(sessions, sid, now)
    /\ nops' = nops + 1
    /\ UNCHANGED <<ctxVars, now, ticks, stored, topoVars, reqVars, clsVars, ragVars>>

InitStoreSpec ==
    /\ InitStore /\ InitProbe /\ InitReq /\ InitCtx /\ InitCls /\ InitRag
    /\ llm = FALSE
    /\ tin = << >>
    /\ tout = Unsorted

NextStore == StoreSet \/ StoreGet \/ Tick \/ Cleanup

StoreSpec == InitStoreSpec /\ [][NextStore]_vars

\* C5: get_cached for key k after set_cached(k, v) returns v if and only if an
\* entry for k exists and ttl is null or the entry's age is at most ttl (an
\* age equal to ttl still hits); otherwise it returns absent.
C5_CacheRoundTrip ==
    \A g \in got :
        g.res = IF /\ g.call \in DOMAIN stored
                   /\ \A ttl \in g.ttl : now - stored[g.call].at <= ttl
                THEN Some(stored[g.call].value)
                ELSE None

\* a lookup with a ttl that met an entry exactly as old as the ttl, and hit
C5_Witness ==
    \E g \in got :
        /\ g.call \in DOMAIN stored
        /\ \E ttl \in g.ttl : now - stored[g.call].at = ttl /\ ttl > 0
        /\ g.res = Some(stored[g.call].value)

\* a lookup that met an entry older than the ttl, and missed
C5_WitnessExpired ==
    \E g \in got :
        /\ g.call \in DOMAIN stored
        /\ \E ttl \in g.ttl : now - stored[g.call].at > ttl
        /\ g.res = None

(***************************************************************************)
(* KeySpec: make_cache_key applied to the same arguments given in two      *)
(* orders.  The arguments are those of a parsed JSON object: string keys,  *)
(* no key twice, values json.dumps can write.                              *)
(***************************************************************************)
ArgValues == {"seoul", "15:00"}

\* the dicts of at most MaxArgs arguments, in every insertion order
ArgDicts ==
    {a \in UNION {[1..m -> [k : {ArgKeys[n] : n \in DOMAIN ArgKeys}, v : ArgValues]] :
                    m \in 0..MaxArgs} :
        \A n, m \in DOMAIN a : n # m => a[n].k # a[m].k}

InitKey ==
    /\ InitStore /\ InitReq /\ InitCtx /\ InitCls /\ InitRag
    /\ llm = FALSE
    /\ tin = << >>
    /\ tout = Unsorted
    /\ nops = 0
    /\ \E tool_name \in {"weather.get", "calendar.create"}, args, again \in ArgDicts :
        /\ {args[n] : n \in DOMAIN args} = {again[n] : n \in DOMAIN again}
        /\ got = Some([tool |-> tool_name, args |-> args, again |-> again,
                       key |-> None, key_again |-> None])

\* context_manager.make_cache_key(tool, args), once for each order
KeyCall ==
    /\ \E g \in got :
        /\ g.key = None
        /\ got' = Some([g EXCEPT !.key = Some(make_cache_key(g.tool, g.args)),
                                 !.key_again = Some(make_cache_key(g.tool, g.again))])
    /\ UNCHANGED <<ctxVars, storeVars, nops, topoVars, reqVars, clsVars, ragVars>>

NextKey ==
    \/ KeyCall

KeySpec == InitKey /\ [][NextKey]_vars

\* C29: the cache key of a tool call depends only on the tool name and the
\* argument mapping: the same arguments given in another order of their
\* keys make the same key.
C29_KeyIgnoresOrder ==
    \A g \in got : g.key = g.key_again

\* the key has been made for three arguments given in two different orders
C29_Witness ==
    \E g \in got :
        /\ g.key # None
        /\ Len(g.args) = 3
        /\ g.args # g.again
        /\ g.key = g.key_again

(***************************************************************************)
(* What the LLM can answer: plans.                                         *)
(***************************************************************************)
Weather ==
    [id |-> "a", text |-> "weather", tool |-> "weather.get",
     args |-> <<[k |-> "city", v |-> "seoul"]>>, depends_on |-> << >>]
Create ==
    [id |-> "b", text |-> "create", tool |-> "calendar.create",
     args |-> <<[k |-> "title", v |-> "sync"], [k |-> "start_time", v |-> "15:00"]>>,
     depends_on |-> <<"a">>]
CreateSwapped ==
    [id |-> "b", text |-> "create", tool |-> "calendar.create",
     args |-> <<[k |-> "start_time", v |-> "15:00"], [k |-> "title", v |-> "sync"]>>,
     depends_on |-> <<"a">>]
Answer ==
    [id |-> "a", text |-> "answer", tool |-> "none", args |-> << >>, depends_on |-> << >>]
WeatherNoArgs ==
    [id |-> "a", text |-> "weather", tool |-> "weather.get", args |-> << >>,
     depends_on |-> << >>]
AnswerNoId ==
    [id |-> NoId, text |-> "answer", tool |-> "none", args |-> << >>, depends_on |-> << >>]
\* a task on a tool the registry does not have
Translate ==
    [id |-> "a", text |-> "translate", tool |-> "translate.text",
     args |-> <<[k |-> "text", v |-> "hello"]>>, depends_on |-> << >>]

\* the "tasks" lists the planner's JSON can carry (an unusable answer is <<>>)
PlannerOutputs ==
    { << >>, <<Weather>>, <<Create, Weather>>, <<Weather, CreateSwapped>>,
      <<Answer>>, <<WeatherNoArgs>>, <<AnswerNoId>>, <<Translate>> }

\* the no-op plan _agentic_run substitutes for an empty one
DefaultPlan ==
    << [id |-> "t1", text |-> "process request", tool |-> "none", args |-> << >>,
        depends_on |-> << >>] >>

max_replans == 2

\* str(t.get("tool") or "none").strip()
tool_of(t) == IF t.tool = "" THEN "none" ELSE t.tool

(***************************************************************************)
(* Orchestrator.handle: the request handler.                               *)
(***************************************************************************)
TheSession == "s1"

reset_request ==
    /\ current_tasks' = << >>
    /\ i' = 0
    /\ replans' = 0
    /\ observations' = << >>
    /\ used_tools' = {}
    /\ rule_todo' = << >>
    /\ llm_error' = None
    /\ todo' = << >>
    /\ meta' = None
    /\ events' = << >>
    /\ outcome' = "none"
    /\ answer' = {}
    /\ calls' = << >>
    /\ last' = [kind |-> "none"]

\* handle, lines 141-146: resolve the session, pick the pipeline
StartRequest ==
    /\ pc \in {"idle", "done"}
    /\ nreq < MaxRequests
    /\ nreq' = nreq + 1
    /\ sessions' = get_or_create_session(sessions, TheSession, now)
    /\ stored' = stored
    /\ reset_request
    /\ trace' = << >>
    /\ pc' = IF llm THEN "classify" ELSE "rule_classify"
    /\ UNCHANGED <<ctxVars, now, ticks, llm, topoVars, probeVars, clsVars, ragVars>>

\* str(e) of the exceptions _agentic_run ends with: the TypeError of the
\* fill_args call, an error of the LLM client
exception_text(why) ==
    IF why = "fill_raise"
    THEN "fill_args() takes 2 positional arguments but 3 were given"
    ELSE "Connection error."

\* (variant) a handler that catches the exception and forgets it
fall_back_silent(why) ==
    /\ llm_error' = None
    /\ todo' = << >>
    /\ pc' = "rule_classify"
    /\ trace' = Append(trace, why)
    /\ current_tasks' = << >>
    /\ i' = 0
    /\ replans' = 0
    /\ observations' = << >>
    /\ used_tools' = {}

\* an exception inside _agentic_run: its locals are gone, handle catches it,
\* keeps the message and goes on with the rule-based branch
fall_back(why) ==
    /\ llm_error' = Some(exception_text(why))
    /\ todo' = << >>
    /\ pc' = "rule_classify"
    /\ trace' = Append(trace, why)
    /\ current_tasks' = << >>
    /\ i' = 0
    /\ replans' = 0
    /\ observations' = << >>
    /\ used_tools' = {}

\* _agentic_run, lines 551-558: recent turns and keyword classification
AgenticClassify ==
    /\ pc = "classify"
    /\ pc' = "plan"
    /\ trace' = Append(trace, "classify")
    /\ last' = [kind |-> "none"]
    /\ UNCHANGED <<ctxVars, storeVars, topoVars, probeVars, llm, nreq, current_tasks, i,
                   replans,
                   observations, used_tools, rule_todo, llm_error, outcome, calls, todo,
                   meta, events, answer, clsVars, ragVars>>

\* line 570: the texts of the tasks that have one
task_texts(tasks) ==
    LET with_text == SelectSeq(tasks, LAMBDA t : t.text # "")
    IN [n \in DOMAIN with_text |-> with_text[n].text]

\* _agentic_run, lines 561-570: the planner answers, the plan is coerced and sorted
AgenticPlan ==
    /\ pc = "plan"
    /\ \E raw \in PlannerOutputs :
          current_tasks' = agentic_topo_sort(IF raw = << >> THEN DefaultPlan ELSE raw)
    /\ todo' = task_texts(current_tasks')
    /\ i' = 0
    /\ replans' = 0
    /\ observations' = << >>
    /\ used_tools' = {}
    /\ pc' = "exec"
    /\ trace' = Append(trace, "plan")
    /\ last' = [kind |-> "none"]
    /\ UNCHANGED <<ctxVars, storeVars, topoVars, probeVars, llm, nreq, rule_todo, llm_error,
                   outcome, calls, meta, events, answer, clsVars, ragVars>>

\* the planner's LLM call raises
AgenticPlanRaises ==
    /\ pc = "plan"
    /\ fall_back("llm_raise")
    /\ last' = [kind |-> "none"]
    /\ UNCHANGED <<ctxVars, storeVars, topoVars, probeVars, llm, nreq, rule_todo, outcome,
                   calls,
                   meta, events, answer, clsVars, ragVars>>

(***************************************************************************)
(* ToolExecutor.execute_plan: one action per iteration of its loop.        *)
(***************************************************************************)
Running == pc = "exec" /\ i < Len(current_tasks)
Task == current_tasks[i + 1]
Key == make_cache_key(tool_of(Task), Task.args)
Cached == get_cached_tool_result(sessions, TheSession, Key, tool_ttl(tool_of(Task)), now)

observation(t, kind, cached, result) ==
    [task_id |-> t.id, kind |-> kind, tool |-> tool_of(t), args |-> t.args,
     cached |-> cached, result |-> result, note |-> IF kind = "note" THEN t.text ELSE ""]

\* what the history keeps of an executor step on a tool
step(kind, asked, raw) ==
    [kind |-> kind, call |-> Canon(tool_of(Task), Task.args), at |-> now,
     prior |-> IF Canon(tool_of(Task), Task.args) \in DOMAIN stored
               THEN Some(stored[Canon(tool_of(Task), Task.args)]) ELSE None,
     tasks_before |-> current_tasks, i_before |-> i, replans_before |-> replans,
     calls_before |-> Len(calls),
     asked |-> asked, raw |-> raw]

\* lines 178-181: a task without tool is recorded as a note
ExecNote ==
    /\ Running
    /\ tool_of(Task) = "none"
    /\ observations' = Append(observations, observation(Task, "note", FALSE, None))
    /\ i' = i + 1
    /\ trace' = Append(trace, "note")
    /\ last' = [kind |-> "note"]
    /\ UNCHANGED <<ctxVars, storeVars, topoVars, probeVars, llm, pc, nreq, current_tasks,
                   replans,
                   used_tools, rule_todo, llm_error, outcome, calls, todo, meta, events,
                   answer, clsVars, ragVars>>

\* lines 153-154: the args are empty, so fill_args_fn is called with the tool,
\* its schema and the observations; the delegate _agentic_run binds takes two
\* parameters, the call raises TypeError and execute_plan ends with it
ExecFillArgs ==
    /\ Running
    /\ tool_of(Task) # "none"
    /\ Task.args = << >>
    /\ fall_back("fill_raise")
    /\ last' = [kind |-> "fill_raise"]
    /\ UNCHANGED <<ctxVars, storeVars, topoVars, probeVars, llm, nreq, rule_todo, outcome,
                   calls,
                   meta, events, answer, clsVars, ragVars>>

\* lines 156-160: a fresh cache entry answers the task
ExecCached ==
    /\ Running
    /\ tool_of(Task) # "none"
    /\ Task.args # << >>
    /\ Cached # None
    /\ observations' = Append(observations, observation(Task, "result", TRUE, Cached))
    /\ used_tools' = used_tools \cup {tool_of(Task)}
    /\ i' = i + 1
    /\ sessions' = ensure_tool_cache(sessions, TheSession, now)
    /\ trace' = Append(trace, "tool")
    /\ last' = step("cached", 0, None)
    /\ UNCHANGED <<ctxVars, now, ticks, stored, topoVars, probeVars, llm, pc, nreq,
                   current_tasks,
                   replans, rule_todo, llm_error, outcome, calls, todo, meta, events,
                   answer, clsVars, ragVars>>

http(t, ok) == [tool |-> tool_of(t), args |-> t.args, ok |-> ok, by |-> "executor"]

\* lines 162-165: the downstream answers, the result is cached and recorded
ExecCallOk ==
    /\ Running
    /\ tool_of(Task) \in ToolNames
    /\ Task.args # << >>
    /\ Cached = None
    /\ \E result \in Results :
          /\ sessions' = set_cached_tool_result(sessions, TheSession, Key, result, now)
          /\ stored' = remember(Canon(tool_of(Task), Task.args), result)
          /\ observations' =
                Append(observations, observation(Task, "result", FALSE, Some(result)))
    /\ calls' = Append(calls, http(Task, TRUE))
    /\ used_tools' = used_tools \cup {tool_of(Task)}
    /\ i' = i + 1
    /\ trace' = Append(trace, "tool")
    /\ last' = step("call_ok", 0, None)
    /\ UNCHANGED <<ctxVars, now, ticks, topoVars, probeVars, llm, pc, nreq, current_tasks,
                   replans,
                   rule_todo, llm_error, outcome, todo, meta, events, answer, clsVars,
                   ragVars>>

\* (variant) a failure whose text is written to the cache like a result
call_fails_cached ==
    /\ Running
    /\ tool_of(Task) # "none"
    /\ Task.args # << >>
    /\ Cached = None
    /\ sessions' = set_cached_tool_result(sessions, TheSession, Key, "error", now)
    /\ calls' = IF tool_of(Task) \in ToolNames THEN Append(calls, http(Task, FALSE))
                ELSE calls

\* call_tool raises: the downstream failed, or the tool is not one call_tool knows
call_fails ==
    /\ Running
    /\ tool_of(Task) # "none"
    /\ Task.args # << >>
    /\ Cached = None
    /\ sessions' = ensure_tool_cache(sessions, TheSession, now)
    /\ calls' = IF tool_of(Task) \in ToolNames THEN Append(calls, http(Task, FALSE))
                ELSE calls

\* (variant) a delegate that hands the planner's list on as it came
replan_unsorted(raw) == raw

\* the delegate _agentic_run binds as replan_fn: the planner's list, sorted
replan(raw) == IF raw # << >> THEN agentic_topo_sort(raw) ELSE << >>

\* (variant) a loop that replans as long as the count has not passed the limit
may_replan_once_more == replans <= max_replans

\* line 169: replan_fn and replans < max_replans
may_replan == replans < max_replans

\* (variant) a loop that gives up the rest of the plan after a failure
after_failure_skip_rest(pos) == Len(current_tasks)

\* lines 177, 181: a failure that is not followed by a restart goes on with
\* the next task
after_failure(pos) == pos + 1

\* (variant) a failure that starts the list of observations afresh
record_error_afresh(obs, t) == <<observation(t, "error", FALSE, None)>>

\* line 167: the failure is appended to the observations made so far
record_error(obs, t) == Append(obs, observation(t, "error", FALSE, None))

\* lines 166-175: the failure is recorded and the planner is asked for a new plan
ExecFailReplan ==
    /\ call_fails
    /\ may_replan
    /\ \E raw \in PlannerOutputs :
          /\ IF replan(raw) # << >>
             THEN /\ current_tasks' = replan(raw)
                  /\ replans' = replans + 1
                  /\ i' = 0
                  /\ used_tools' = used_tools
                  /\ trace' = Append(trace, "adopt")
             ELSE /\ used_tools' = used_tools \cup {tool_of(Task)}
                  /\ i' = after_failure(i)
                  /\ trace' = Append(trace, "tool")
                  /\ UNCHANGED <<current_tasks, replans>>
          /\ last' = step("call_fail", 1, Some(raw))
    /\ observations' = record_error(observations, Task)
    /\ UNCHANGED <<ctxVars, now, ticks, stored, topoVars, probeVars, llm, pc, nreq,
                   rule_todo,
                   llm_error, outcome, todo, meta, events, answer, clsVars, ragVars>>

\* the planner's LLM call inside replan_fn raises: execute_plan ends with it
ExecFailReplanRaises ==
    /\ call_fails
    /\ may_replan
    /\ fall_back("llm_raise")
    /\ last' = step("replan_raise", 1, None)
    /\ UNCHANGED <<ctxVars, now, ticks, stored, topoVars, probeVars, llm, nreq, rule_todo,
                   outcome, meta, events, answer, clsVars, ragVars>>

\* lines 166-169, 177, 181: no replan is left, the loop goes on
ExecFailNoReplan ==
    /\ call_fails
    /\ ~may_replan
    /\ observations' = record_error(observations, Task)
    /\ used_tools' = used_tools \cup {tool_of(Task)}
    /\ i' = after_failure(i)
    /\ trace' = Append(trace, "tool")
    /\ last' = step("call_fail", 0, None)
    /\ UNCHANGED <<ctxVars, now, ticks, stored, topoVars, probeVars, llm, pc, nreq,
                   current_tasks,
                   replans, rule_todo, llm_error, outcome, todo, meta, events, answer,
                   clsVars, ragVars>>

\* line 183: the loop is over, execute_plan returns
ExecReturn ==
    /\ pc = "exec"
    /\ i >= Len(current_tasks)
    /\ pc' = "final"
    /\ last' = [kind |-> "return"]
    /\ UNCHANGED <<ctxVars, storeVars, topoVars, probeVars, llm, nreq, current_tasks, i,
                   replans,
                   observations, used_tools, rule_todo, llm_error, outcome, calls, trace,
                   todo, meta, events, answer, clsVars, ragVars>>

\* what str(llm_service.chat(...) or "").strip() can be
FinalTexts == {"", "answer"}

\* the fixed text of line 603
apology == "apology"

\* (variant) the LLM's text as it came
final_answer_as_is(final_text) == {final_text}

\* lines 602-603: an empty text is replaced by the apology
final_answer(final_text) == IF final_text = "" THEN {apology} ELSE {final_text}

\* _agentic_run, lines 594-613, and handle, lines 149-173: the final answer
\* (the apology when the LLM's text is empty), the turn, the response
AgenticFinal ==
    /\ pc = "final"
    /\ \E final_text \in FinalTexts : answer' = final_answer(final_text)
    /\ sessions' = add_conversation_turn(sessions, TheSession, now)
    /\ stored' = stored
    /\ meta' = Some([intent |-> "agentic", notify |-> FALSE, plan |-> todo,
                      llm_fallback |-> FALSE])
    /\ outcome' = "response"
    /\ pc' = "done"
    /\ trace' = Append(trace, "final")
    /\ last' = [kind |-> "none"]
    /\ UNCHANGED <<ctxVars, now, ticks, topoVars, probeVars, llm, nreq, current_tasks, i,
                   replans,
                   observations, used_tools, rule_todo, llm_error, calls, todo, events,
                   clsVars, ragVars>>

\* lines 595-601: the final-answer LLM call raises.  Nothing in _agentic_run
\* catches it: the observations are gone with its locals and handle goes on
\* with the rule-based branch.  The history notes that the answer was asked.
AgenticFinalRaises ==
    /\ pc = "final"
    /\ llm_error' = Some(exception_text("llm_raise"))
    /\ todo' = << >>
    /\ pc' = "rule_classify"
    /\ trace' = trace \o <<"synthesize", "llm_raise">>
    /\ current_tasks' = << >>
    /\ i' = 0
    /\ replans' = 0
    /\ observations' = << >>
    /\ used_tools' = {}
    /\ last' = [kind |-> "none"]
    /\ UNCHANGED <<ctxVars, storeVars, topoVars, probeVars, llm, nreq, rule_todo, outcome,
                   calls,
                   meta, events, answer, clsVars, ragVars>>

(***************************************************************************)
(* handle, lines 181-439: the rule-based branch.                           *)
(***************************************************************************)
\* what IntentClassifier._fallback_keyword_analysis makes of the message: the
\* intent and whether a notification is wanted besides
Analyses ==
    {[intent |-> "weather_query", notify |-> FALSE],
     [intent |-> "weather_query", notify |-> TRUE],
     [intent |-> "calendar_query", notify |-> FALSE],
     [intent |-> "calendar_query", notify |-> TRUE],
     [intent |-> "calendar_create", notify |-> FALSE],
     [intent |-> "calendar_create", notify |-> TRUE],
     [intent |-> "file_search", notify |-> FALSE],
     [intent |-> "file_search", notify |-> TRUE],
     [intent |-> "notification_send", notify |-> FALSE],
     [intent |-> "help", notify |-> FALSE],
     [intent |-> "chat", notify |-> FALSE]}

\* (variant) a weather branch that notifies before it asks for the weather
rule_calls_notify_first(a) ==
    IF a.intent = "weather_query"
    THEN IF a.notify THEN <<"notification.send", "weather.get">> ELSE <<"weather.get">>
    ELSE IF a.intent = "calendar_query" THEN <<"calendar.get">>
    ELSE IF a.intent = "calendar_create" THEN <<"calendar.create">>
    ELSE IF a.intent = "file_search" THEN <<"file.search">>
    ELSE IF a.intent = "notification_send" THEN <<"notification.send">>
    ELSE IF a.intent = "chat" THEN <<"rag.query">>
    ELSE << >>

\* the downstream calls of the branch of an intent, in order
rule_calls(a) ==
    IF a.intent = "weather_query"
    THEN IF a.notify THEN <<"weather.get", "notification.send">> ELSE <<"weather.get">>
    ELSE IF a.intent = "calendar_query" THEN <<"calendar.get">>
    ELSE IF a.intent = "calendar_create" THEN <<"calendar.create">>
    ELSE IF a.intent = "file_search" THEN <<"file.search">>
    ELSE IF a.intent = "notification_send" THEN <<"notification.send">>
    ELSE IF a.intent = "chat" THEN <<"rag.query">>
    ELSE << >>

notify_steps == <<"compose the message", "send by notification-service", "check the sending">>

\* _rule_todo_list: the steps shown for an intent
rule_todo_list(a) ==
    IF a.intent = "weather_query"
    THEN <<"extract parameters", "call weather-service", "summarize">>
         \o (IF a.notify THEN notify_steps ELSE << >>)
    ELSE IF a.intent = "calendar_query"
    THEN <<"resolve the date", "call calendar-service", "summarize the events">>
         \o (IF a.notify THEN notify_steps ELSE << >>)
    ELSE IF a.intent = "calendar_create"
    THEN <<"extract title and time", "ask calendar-service to create", "confirm">>
         \o (IF a.notify THEN notify_steps ELSE << >>)
    ELSE IF a.intent = "file_search"
    THEN <<"refine the keywords", "call file-service", "list the results">>
         \o (IF a.notify THEN notify_steps ELSE << >>)
    ELSE IF a.intent = "notification_send"
    THEN <<"pick channel and recipient", "send by notification-service", "check the sending">>
    ELSE IF a.intent = "help" THEN <<"list the features">>
    ELSE <<"query rag-service", "answer with sources">>

\* if llm_error: a non-empty text
truthy(opt_text) == opt_text # None /\ opt_text # Some("")

\* lines 181-210: classify by keywords, build meta; help is answered at once,
\* without a turn
RuleClassify ==
    /\ pc = "rule_classify"
    /\ \E a \in Analyses :
          /\ rule_todo' = rule_calls(a)
          /\ meta' = Some([intent |-> a.intent, notify |-> a.notify,
                            plan |-> rule_todo_list(a),
                            llm_fallback |-> truthy(llm_error)])
          /\ IF a.intent = "help"
             THEN pc' = "done" /\ outcome' = "response" /\ answer' = {"help"}
             ELSE pc' = "rule" /\ outcome' = outcome /\ answer' = answer
    /\ trace' = Append(trace, "rule_classify")
    /\ last' = [kind |-> "none"]
    /\ UNCHANGED <<ctxVars, storeVars, topoVars, probeVars, llm, nreq, current_tasks, i,
                   replans,
                   observations, used_tools, llm_error, calls, todo, events, clsVars,
                   ragVars>>

\* lines 233-238 and 374: the message of a notification is the weather
\* summary in the weather branch, the user's message in the notify branch
rule_args(tool_name) ==
    IF tool_name = "notification.send"
    THEN << [k |-> "message",
             v |-> IF The(meta).intent = "weather_query" THEN "weather_summary"
                   ELSE "user_message"] >>
    ELSE << >>

rule_http(tool_name, ok) ==
    [tool |-> tool_name, args |-> rule_args(tool_name), ok |-> ok, by |-> "rule"]

\* a downstream call of the branch answers
RuleCallOk ==
    /\ pc = "rule"
    /\ rule_todo # << >>
    /\ calls' = Append(calls, rule_http(Head(rule_todo), TRUE))
    /\ rule_todo' = Tail(rule_todo)
    /\ trace' = Append(trace, "rule_call")
    /\ last' = [kind |-> "none"]
    /\ UNCHANGED <<ctxVars, storeVars, topoVars, probeVars, llm, pc, nreq, current_tasks,
                   i, replans,
                   observations, used_tools, llm_error, outcome, meta, todo, events,
                   answer, clsVars, ragVars>>

\* only the rag call of the chat branch sits in a try/except (lines 395-411)
rule_call_is_guarded(tool_name) == tool_name = "rag.query"

\* a downstream call of the branch fails: r.raise_for_status() raises out of
\* handle, except in the chat branch, which notes the error and answers
RuleCallFail ==
    /\ pc = "rule"
    /\ rule_todo # << >>
    /\ calls' = Append(calls, rule_http(Head(rule_todo), FALSE))
    /\ IF rule_call_is_guarded(Head(rule_todo))
       THEN /\ rule_todo' = Tail(rule_todo)
            /\ UNCHANGED <<pc, outcome>>
       ELSE /\ rule_todo' = << >>
            /\ pc' = "done"
            /\ outcome' = "error"
    /\ trace' = Append(trace, "rule_call")
    /\ last' = [kind |-> "none"]
    /\ UNCHANGED <<ctxVars, storeVars, topoVars, probeVars, llm, nreq, current_tasks, i,
                   replans,
                   observations, used_tools, llm_error, meta, todo, events, answer,
                   clsVars, ragVars>>

\* the response text of a branch whose calls are over: lines 244-250 for
\* weather (notify_meta, the notification record, is not empty), 411 for a
\* failed rag call, 427 for an intent without a branch
rule_answer(a, rag_ok) ==
    IF a.intent = "weather_query"
    THEN {"weather_summary"} \cup (IF a.notify THEN {"notification_sent"} ELSE {})
    ELSE IF a.intent = "calendar_query" THEN {"calendar_events"}
    ELSE IF a.intent = "calendar_create" THEN {"event_created"}
    ELSE IF a.intent = "file_search" THEN {"files_found"}
    ELSE IF a.intent = "notification_send" THEN {"notification_sent"}
    ELSE IF a.intent = "chat" /\ rag_ok THEN {"rag_answer"}
    ELSE {"user_message"}

\* the branch appends its turn and returns the response
RuleRespond ==
    /\ pc = "rule"
    /\ rule_todo = << >>
    /\ answer' = rule_answer(The(meta), calls # << >> /\ calls[Len(calls)].ok)
    /\ sessions' = add_conversation_turn(sessions, TheSession, now)
    /\ stored' = stored
    /\ outcome' = "response"
    /\ pc' = "done"
    /\ trace' = Append(trace, "respond")
    /\ last' = [kind |-> "none"]
    /\ UNCHANGED <<ctxVars, now, ticks, topoVars, probeVars, llm, nreq, current_tasks, i,
                   replans,
                   observations, used_tools, rule_todo, llm_error, calls, todo, meta,
                   events, clsVars, ragVars>>

Init ==
    /\ InitStore /\ InitProbe /\ InitReq /\ InitCtx /\ InitCls /\ InitRag
    /\ llm \in BOOLEAN
    /\ tin = << >>
    /\ tout = Unsorted

Next ==
    \/ StartRequest
    \/ AgenticClassify \/ AgenticPlan \/ AgenticPlanRaises
    \/ ExecNote \/ ExecFillArgs \/ ExecCached \/ ExecCallOk
    \/ ExecFailReplan \/ ExecFailReplanRaises \/ ExecFailNoReplan \/ ExecReturn
    \/ AgenticFinal \/ AgenticFinalRaises
    \/ RuleClassify \/ RuleCallOk \/ RuleCallFail \/ RuleRespond
    \/ Tick \/ Cleanup

Spec == Init /\ [][Next]_vars

(***************************************************************************)
(* Orchestrator.stream: the streaming handler.  It shares the executor.    *)
(***************************************************************************)
event(todo_list, completed, status) ==
    [todo |-> todo_list, completed |-> completed, status |-> status,
     final |-> None, done |-> FALSE]

done_event(todo_list, completed, final_text) ==
    [todo |-> todo_list, completed |-> completed, status |-> "done",
     final |-> Some(final_text), done |-> TRUE]

Min(a, b) == IF a <= b THEN a ELSE b

\* lines 625-630: the first event, keyword classification
StreamClassify ==
    /\ pc = "classify"
    /\ events' = Append(events, event(<< >>, 0, "analyzing intent"))
    /\ pc' = "plan"
    /\ trace' = Append(trace, "classify")
    /\ last' = [kind |-> "none"]
    /\ UNCHANGED <<ctxVars, storeVars, topoVars, probeVars, llm, nreq, current_tasks, i,
                   replans,
                   observations, used_tools, rule_todo, llm_error, todo, meta, outcome,
                   calls, answer, clsVars, ragVars>>

\* lines 645-649: one event per task, completed capped by the todo's length
task_events(tasks, todo_list) ==
    [n \in DOMAIN tasks |->
        event(todo_list, Min(n, Len(todo_list)),
              IF tool_of(tasks[n]) # "none" THEN "running tool" ELSE "in progress")]

\* lines 632-649: the planning event, the plan, the plan-ready event and the
\* events of the tasks
StreamPlan ==
    /\ pc = "plan"
    /\ \E raw \in PlannerOutputs :
          current_tasks' = agentic_topo_sort(IF raw = << >> THEN DefaultPlan ELSE raw)
    /\ todo' = task_texts(current_tasks')
    /\ events' = Append(events, event(<< >>, 0, "planning"))
                 \o << event(todo', 0, "plan ready") >>
                 \o task_events(current_tasks', todo')
    /\ i' = 0
    /\ replans' = 0
    /\ observations' = << >>
    /\ used_tools' = {}
    /\ pc' = "exec"
    /\ trace' = Append(trace, "plan")
    /\ last' = [kind |-> "none"]
    /\ UNCHANGED <<ctxVars, storeVars, topoVars, probeVars, llm, nreq, rule_todo,
                   llm_error, meta,
                   outcome, calls, answer, clsVars, ragVars>>

\* the planner's LLM call raises after the planning event
StreamPlanRaises ==
    /\ pc = "plan"
    /\ events' = Append(events, event(<< >>, 0, "planning"))
    /\ fall_back("llm_raise")
    /\ last' = [kind |-> "none"]
    /\ UNCHANGED <<ctxVars, storeVars, topoVars, probeVars, llm, nreq, rule_todo, meta,
                   outcome,
                   calls, answer, clsVars, ragVars>>

\* (variant) a last event that lists the tasks as the executor returned them
streamed_todo_final_tasks(planned, final_tasks) == task_texts(final_tasks)

\* line 680: the last event carries the todo computed from the first plan
streamed_todo(planned, final_tasks) == planned

\* (variant) a stream that records the turn as handle does
StreamFinalWithTurn ==
    /\ pc = "final"
    /\ \E final_text \in FinalTexts :
          events' = Append(events, done_event(todo, Len(todo), final_text))
    /\ sessions' = add_conversation_turn(sessions, TheSession, now)
    /\ outcome' = "response"
    /\ pc' = "done"
    /\ trace' = Append(trace, "final")
    /\ last' = [kind |-> "none"]
    /\ UNCHANGED <<ctxVars, now, ticks, stored, topoVars, probeVars, llm, nreq,
                   current_tasks, i, replans,
                   observations, used_tools, rule_todo, llm_error, todo, meta, calls,
                   answer, clsVars, ragVars>>

\* lines 674-682: the final answer and the last event
StreamFinal ==
    /\ pc = "final"
    /\ \E final_text \in FinalTexts :
          events' = Append(events, done_event(streamed_todo(todo, current_tasks),
                                              Len(streamed_todo(todo, current_tasks)),
                                              final_text))
    /\ outcome' = "response"
    /\ pc' = "done"
    /\ trace' = Append(trace, "final")
    /\ last' = [kind |-> "none"]
    /\ UNCHANGED <<ctxVars, storeVars, topoVars, probeVars, llm, nreq, current_tasks, i,
                   replans,
                   observations, used_tools, rule_todo, llm_error, todo, meta, calls,
                   answer, clsVars, ragVars>>

\* the final-answer LLM call raises
StreamFinalRaises ==
    /\ pc = "final"
    /\ fall_back("llm_raise")
    /\ last' = [kind |-> "none"]
    /\ UNCHANGED <<ctxVars, storeVars, topoVars, probeVars, llm, nreq, rule_todo, meta,
                   outcome,
                   calls, events, answer, clsVars, ragVars>>

\* the branches of the rule-based stream that call a service
stream_calls(a) ==
    IF a.intent = "weather_query"
    THEN IF a.notify THEN <<"weather.get", "notification.send">> ELSE <<"weather.get">>
    ELSE IF a.intent = "notification_send" THEN <<"notification.send">>
    ELSE << >>

\* the events of a branch up to its first call, or up to its end
opening_events(a, tasks, message) ==
    IF a.intent = "weather_query"
    THEN << event(tasks, Min(1, Len(tasks)), "parameters extracted"),
            event(tasks, Min(2, Len(tasks)), "calling weather-service") >>
    ELSE IF a.intent = "notification_send"
    THEN << event(tasks, Min(1, Len(tasks)), "channel decided"),
            event(tasks, Min(2, Len(tasks)), "sending") >>
    ELSE << done_event(tasks, Len(tasks), message) >>

\* lines 683-698 and 700-767: the event of the except clause if the LLM part
\* raised, keyword classification, the two opening events, the branch up to
\* its first downstream call
StreamRule ==
    /\ pc = "rule_classify"
    /\ \E a \in Analyses :
          /\ rule_todo' = stream_calls(a)
          /\ meta' = Some([intent |-> a.intent, notify |-> a.notify,
                            plan |-> rule_todo_list(a), llm_fallback |-> truthy(llm_error)])
          /\ events' =
                events
                \o (IF llm_error # None THEN << event(<< >>, 0, "LLM error") >> ELSE << >>)
                \o << event(rule_todo_list(a), 0, "planning"),
                      event(rule_todo_list(a), 0, "intent analyzed") >>
                \o opening_events(a, rule_todo_list(a), "message")
          /\ IF stream_calls(a) = << >>
             THEN pc' = "done" /\ outcome' = "response"
             ELSE pc' = "rule" /\ outcome' = outcome
    /\ trace' = Append(trace, "rule_classify")
    /\ last' = [kind |-> "none"]
    /\ UNCHANGED <<ctxVars, storeVars, topoVars, probeVars, llm, nreq, current_tasks, i,
                   replans,
                   observations, used_tools, llm_error, todo, calls, answer, clsVars,
                   ragVars>>

LastEvent == events[Len(events)]

\* the events after a call that answered: lines 715-738 for weather-service,
\* lines 734-738 and 762-765 for notification-service
events_after(tool_name, tasks, completed, more) ==
    IF tool_name = "weather.get"
    THEN IF more
         THEN << event(tasks, Min(completed + 1, Len(tasks)), "summarized"),
                 event(tasks, Min(completed + 2, Len(tasks)), "sending") >>
         ELSE << done_event(tasks, Min(completed + 1, Len(tasks)), "summary") >>
    ELSE IF The(meta).intent = "weather_query"
    THEN << event(tasks, Min(completed + 1, Len(tasks)), "sending checked"),
            done_event(tasks, Min(completed + 1, Len(tasks)), "summary and sending") >>
    ELSE << done_event(tasks, Min(completed + 1, Len(tasks)), "sent") >>

\* a downstream call of the rule-based stream answers
StreamRuleCallOk ==
    /\ pc = "rule"
    /\ rule_todo # << >>
    /\ calls' = Append(calls, rule_http(Head(rule_todo), TRUE))
    /\ rule_todo' = Tail(rule_todo)
    /\ events' = events \o events_after(Head(rule_todo), LastEvent.todo,
                                        LastEvent.completed, Tail(rule_todo) # << >>)
    /\ IF Tail(rule_todo) = << >>
       THEN pc' = "done" /\ outcome' = "response"
       ELSE pc' = pc /\ outcome' = outcome
    /\ trace' = Append(trace, "rule_call")
    /\ last' = [kind |-> "none"]
    /\ UNCHANGED <<ctxVars, storeVars, topoVars, probeVars, llm, nreq, current_tasks, i,
                   replans,
                   observations, used_tools, llm_error, todo, meta, answer, clsVars,
                   ragVars>>

\* a downstream call of the rule-based stream fails: r.raise_for_status()
\* raises out of the generator
StreamRuleCallFail ==
    /\ pc = "rule"
    /\ rule_todo # << >>
    /\ calls' = Append(calls, rule_http(Head(rule_todo), FALSE))
    /\ rule_todo' = << >>
    /\ pc' = "done"
    /\ outcome' = "error"
    /\ trace' = Append(trace, "rule_call")
    /\ last' = [kind |-> "none"]
    /\ UNCHANGED <<ctxVars, storeVars, topoVars, probeVars, llm, nreq, current_tasks, i,
                   replans,
                   observations, used_tools, llm_error, todo, meta, events, answer,
                   clsVars, ragVars>>

NextStream ==
    \/ StartRequest
    \/ StreamClassify \/ StreamPlan \/ StreamPlanRaises
    \/ ExecNote \/ ExecFillArgs \/ ExecCached \/ ExecCallOk
    \/ ExecFailReplan \/ ExecFailReplanRaises \/ ExecFailNoReplan \/ ExecReturn
    \/ StreamFinal \/ StreamFinalRaises
    \/ StreamRule \/ StreamRuleCallOk \/ StreamRuleCallFail
    \/ Tick \/ Cleanup

StreamSpec == Init /\ [][NextStream]_vars

\* the session of the stream has been used before: it holds two turns that
\* unary requests recorded
InitAfterTurns ==
    /\ now = 0
    /\ ticks = 0
    /\ sessions = [sid \in SessionIds |->
                      Some([last_activity |-> 0, turns |-> 2, tool_cache |-> << >>])]
    /\ stored = << >>
    /\ InitProbe /\ InitReq /\ InitCtx /\ InitCls /\ InitRag
    /\ llm \in BOOLEAN
    /\ tin = << >>
    /\ tout = Unsorted

StreamAfterTurnsSpec == InitAfterTurns /\ [][NextStream]_vars

(***************************************************************************)
(* The context store with its two tables: active_sessions holds each       *)
(* session with its full history, context_windows its bounded window.  A   *)
(* turn is recorded as its ordinal in the history, the number in turn_id.  *)
(***************************************************************************)
\* ContextManager(max_history_length = 20)
max_history_length == 20

\* a SessionContext as create_session and the three create-if-missing
\* branches build it
SessionContext(t) ==
    [last_activity |-> t, conversation_turns |-> << >>, tool_cache |-> << >>]

\* (variant) a window without maxlen
deque_append_unbounded(window, turn) == Append(window, turn)

\* deque(maxlen = max_history_length).append: a full deque drops its oldest
deque_append(window, turn) ==
    IF Len(window) >= max_history_length
    THEN Append(Tail(window), turn)
    ELSE Append(window, turn)

\* the slice window[-n:] of a Python list
slice_last(window, n) ==
    IF n = 0 \/ n >= Len(window) THEN window
    ELSE SubSeq(window, Len(window) - n + 1, Len(window))

\* ContextManager.get_recent_turns: an unknown session reads an empty deque
get_recent_turns(windows, sid, n) ==
    LET window == IF windows[sid] = None THEN << >> ELSE The(windows[sid])
    IN  slice_last(window, n)

\* (variant) a create-if-missing branch that also refreshes a session it finds
with_session_touched(ss, sid, t) ==
    IF ss[sid] = None THEN [ss EXCEPT ![sid] = Some(SessionContext(t))]
    ELSE [ss EXCEPT ![sid] = Some([The(@) EXCEPT !.last_activity = t])]

\* the two tables after a create-if-missing branch
with_session(ss, sid, t) ==
    IF ss[sid] = None THEN [ss EXCEPT ![sid] = Some(SessionContext(t))] ELSE ss
with_window(ss, ws, sid) ==
    IF ss[sid] = None THEN [ws EXCEPT ![sid] = Some(<< >>)] ELSE ws

\* get_or_create_session(session_id) run without interruption
CtxGetOrCreate ==
    /\ goc.at = "idle"
    /\ \E sid \in CtxSessionIds :
          /\ active_sessions' =
                IF active_sessions[sid] # None
                THEN [active_sessions EXCEPT
                        ![sid] = Some([The(@) EXCEPT !.last_activity = now])]
                ELSE [active_sessions EXCEPT ![sid] = Some(SessionContext(now))]
          /\ context_windows' =
                IF active_sessions[sid] # None THEN context_windows
                ELSE [context_windows EXCEPT ![sid] = Some(<< >>)]
    /\ recent' = None
    /\ UNCHANGED <<goc, nturns, topoVars, storeVars, probeVars, reqVars, clsVars, ragVars>>

\* ContextManager.add_conversation_turn
CtxAddTurn ==
    /\ goc.at = "idle"
    /\ nturns < MaxTurns
    /\ \E sid \in CtxSessionIds :
          LET ss   == with_session(active_sessions, sid, now)
              ws   == with_window(active_sessions, context_windows, sid)
              turn == Len(The(ss[sid]).conversation_turns) + 1
          IN  /\ active_sessions' =
                    [ss EXCEPT ![sid] =
                        Some([The(@) EXCEPT
                                !.conversation_turns = Append(@, turn),
                                !.last_activity = now])]
              /\ context_windows' =
                    [ws EXCEPT ![sid] = Some(deque_append(The(@), turn))]
    /\ nturns' = nturns + 1
    /\ recent' = None
    /\ UNCHANGED <<goc, topoVars, storeVars, probeVars, reqVars, clsVars, ragVars>>

\* the call whose result CtxSetCached stores
CtxKey == make_cache_key(Weather.tool, Weather.args)

\* ContextManager.set_cached_tool_result, with _ensure_tool_cache
CtxSetCached ==
    /\ \E sid \in CtxSessionIds :
          LET ss == with_session(active_sessions, sid, now)
              ws == with_window(active_sessions, context_windows, sid)
          IN  /\ active_sessions' =
                    [ss EXCEPT ![sid] =
                        Some([The(@) EXCEPT
                                !.tool_cache = cache_store(@, CtxKey, "r1", now)])]
              /\ context_windows' = ws
    /\ recent' = None
    /\ UNCHANGED <<goc, nturns, topoVars, storeVars, probeVars, reqVars, clsVars, ragVars>>

\* ContextManager.get_recent_turns(session_id, n)
CtxGetRecent ==
    /\ \E sid \in CtxSessionIds, n \in 0..MaxRecent :
          recent' = Some([session_id |-> sid, n |-> n,
                          turns |-> get_recent_turns(context_windows, sid, n)])
    /\ UNCHANGED <<active_sessions, context_windows, goc, nturns,
                   topoVars, storeVars, probeVars, reqVars, clsVars, ragVars>>

\* (variant) a sweep that forgets the window table
pop_session_only(table, gone, is_windows) ==
    IF is_windows THEN table
    ELSE [sid \in DOMAIN table |-> IF sid \in gone THEN None ELSE table[sid]]

\* the two pops of cleanup_expired_sessions, for every expired session
pop_expired(table, gone, is_windows) ==
    [sid \in DOMAIN table |-> IF sid \in gone THEN None ELSE table[sid]]

\* ContextManager.cleanup_expired_sessions on the two tables
CtxSweep ==
    /\ expired(active_sessions, now) # {}
    /\ active_sessions' =
          pop_expired(active_sessions, expired(active_sessions, now), FALSE)
    /\ context_windows' =
          pop_expired(context_windows, expired(active_sessions, now), TRUE)
    /\ recent' = None
    /\ UNCHANGED <<goc, nturns, topoVars, storeVars, probeVars, reqVars, clsVars, ragVars>>

\* the clock of CtxSpec and RaceSpec
CtxTick ==
    /\ Tick
    /\ recent' = None

NextCtx ==
    \/ CtxGetOrCreate \/ CtxAddTurn \/ CtxSetCached \/ CtxGetRecent
    \/ CtxSweep \/ CtxTick

CtxSpec == InitStoreSpec /\ [][NextCtx]_vars

(***************************************************************************)
(* RaceSpec: get_or_create_session line by line.  The function takes no    *)
(* lock of its own: get_session and update_session_activity lock for the   *)
(* length of their call, the two table writes of lines 238 and 248 do not  *)
(* lock at all.  Between its lines run the reclaimer thread and the locked *)
(* operations of other requests.                                           *)
(***************************************************************************)
\* a request enters get_or_create_session(session_id)
RaceStart ==
    /\ goc.at = "idle"
    /\ nops < MaxRaceCalls
    /\ \E sid \in CtxSessionIds : goc' = [at |-> "check", session_id |-> sid]
    /\ nops' = nops + 1
    /\ recent' = None
    /\ UNCHANGED <<active_sessions, context_windows, nturns, got,
                   topoVars, storeVars, reqVars, clsVars, ragVars>>

\* line 234: get_session(session_id)
RaceCheck ==
    /\ goc.at = "check"
    /\ goc' = [goc EXCEPT !.at = IF active_sessions[goc.session_id] # None
                                 THEN "touch" ELSE "recheck"]
    /\ recent' = None
    /\ UNCHANGED <<active_sessions, context_windows, nturns,
                   topoVars, storeVars, probeVars, reqVars, clsVars, ragVars>>

\* lines 235-236: update_session_activity touches the session if it is
\* still there, and the id is returned either way
RaceTouch ==
    /\ goc.at = "touch"
    /\ active_sessions' =
          IF active_sessions[goc.session_id] # None
          THEN [active_sessions EXCEPT
                  ![goc.session_id] = Some([The(@) EXCEPT !.last_activity = now])]
          ELSE active_sessions
    /\ goc' = [at |-> "idle"]
    /\ recent' = None
    /\ UNCHANGED <<context_windows, nturns, topoVars, storeVars, probeVars, reqVars,
                   clsVars, ragVars>>

\* line 237: the second get_session; a session that has appeared meanwhile
\* sends the call to line 250, create_session under a fresh id, which
\* leaves the named sessions alone
RaceRecheck ==
    /\ goc.at = "recheck"
    /\ goc' = IF active_sessions[goc.session_id] = None
              THEN [goc EXCEPT !.at = "session"]
              ELSE [at |-> "idle"]
    /\ recent' = None
    /\ UNCHANGED <<active_sessions, context_windows, nturns,
                   topoVars, storeVars, probeVars, reqVars, clsVars, ragVars>>

\* lines 238-247: the unlocked write of the session table
RaceWriteSession ==
    /\ goc.at = "session"
    /\ active_sessions' =
          [active_sessions EXCEPT ![goc.session_id] = Some(SessionContext(now))]
    /\ goc' = [goc EXCEPT !.at = "window"]
    /\ recent' = None
    /\ UNCHANGED <<context_windows, nturns, topoVars, storeVars, probeVars, reqVars,
                   clsVars, ragVars>>

\* lines 248-249: the unlocked write of the window table
RaceWriteWindow ==
    /\ goc.at = "window"
    /\ context_windows' = [context_windows EXCEPT ![goc.session_id] = Some(<< >>)]
    /\ goc' = [at |-> "idle"]
    /\ recent' = None
    /\ UNCHANGED <<active_sessions, nturns, topoVars, storeVars, probeVars, reqVars,
                   clsVars, ragVars>>

\* add_conversation_turn of another request.  It creates the window only
\* with the session (lines 110-121): on a session that has no window yet
\* line 138 raises KeyError after line 137 has appended to the history.
RaceAddTurn ==
    /\ nturns < MaxRaceTurns
    /\ \E sid \in CtxSessionIds :
          LET ss   == with_session(active_sessions, sid, now)
              ws   == with_window(active_sessions, context_windows, sid)
              turn == Len(The(ss[sid]).conversation_turns) + 1
          IN  IF ws[sid] = None
              THEN /\ active_sessions' =
                         [ss EXCEPT ![sid] =
                             Some([The(@) EXCEPT
                                     !.conversation_turns = Append(@, turn)])]
                   /\ context_windows' = ws
              ELSE /\ active_sessions' =
                         [ss EXCEPT ![sid] =
                             Some([The(@) EXCEPT
                                     !.conversation_turns = Append(@, turn),
                                     !.last_activity = now])]
                   /\ context_windows' =
                         [ws EXCEPT ![sid] = Some(deque_append(The(@), turn))]
    /\ nturns' = nturns + 1
    /\ recent' = None
    /\ UNCHANGED <<goc, topoVars, storeVars, probeVars, reqVars, clsVars, ragVars>>

NextRace ==
    \/ RaceStart \/ RaceCheck \/ RaceTouch \/ RaceRecheck
    \/ RaceWriteSession \/ RaceWriteWindow
    \/ RaceAddTurn \/ CtxSetCached \/ CtxSweep \/ CtxTick

RaceSpec == InitStoreSpec /\ [][NextRace]_vars

(***************************************************************************)
(* LookupSpec: the cache lookup next to the other store operations, each   *)
(* run without interruption, on the two tables.                            *)
(***************************************************************************)
\* ContextManager.get_cached_tool_result, with _ensure_tool_cache: the
\* session is created when it is missing, the entry is read and left alone
CtxGetCached ==
    /\ nops < MaxStoreOps
    /\ \E sid \in CtxSessionIds, ttl \in {None, tool_ttl(Weather.tool)} :
          LET ss == with_session(active_sessions, sid, now)
              ws == with_window(active_sessions, context_windows, sid)
          IN  /\ active_sessions' = ss
              /\ context_windows' = ws
              /\ got' = Some([session_id |-> sid, ttl |-> ttl,
                              res |-> cache_lookup(The(ss[sid]).tool_cache, CtxKey,
                                                   ttl, now)])
    /\ nops' = nops + 1
    /\ recent' = None
    /\ UNCHANGED <<goc, nturns, topoVars, storeVars, reqVars, clsVars, ragVars>>

NextLookup ==
    \/ CtxGetOrCreate \/ RaceAddTurn \/ CtxSetCached \/ CtxGetCached
    \/ CtxSweep \/ CtxTick

LookupSpec == InitStoreSpec /\ [][NextLookup]_vars

(***************************************************************************)
(* IntentClassifier (intent_classifier.py).  A message is the set of its   *)
(* words; the classifier only asks whether a keyword occurs in the         *)
(* lowered message, so a word stands for the keyword lists it hits.        *)
(***************************************************************************)
\* the words of the messages, with the keyword lists each occurs in:
\* "weather", "calendar", "create", "file", "notify", "help" are the lists of
\* lines 146-161, "verb", "recipient", "channel" and "ege" those of
\* _detect_notification_intent (lines 53-55 and 61)
Keywords ==
    [nalssi    |-> {"weather"},             \* "날씨"
     iljeong   |-> {"calendar"},            \* "일정"
     jabajwo   |-> {"create"},              \* "잡아줘"
     pail      |-> {"file"},                \* "파일"
     allim     |-> {"notify"},              \* "알림"
     seullaek  |-> {"notify", "channel"},   \* "슬랙"
     allyeojwo |-> {"verb"},                \* "알려줘"
     timege    |-> {"recipient", "ege"},    \* "팀에게"
     doummal   |-> {"help"},                \* "도움말"
     annyeong  |-> {}]                      \* "안녕하세요"

Vocabulary == DOMAIN Keywords

\* any(k in s for k in <list>)
any_in(s, list) == \E word \in s : list \in Keywords[word]

\* IntentClassifier._detect_notification_intent
detect_notification_intent(s) ==
    \/ any_in(s, "verb")
    \/ any_in(s, "channel")
    \/ (any_in(s, "recipient") /\ any_in(s, "ege"))

CompositeIntents == {"weather_query", "calendar_query", "calendar_create", "file_search"}

\* lines 119-123 and 166-170: the composite request appends "notification"
with_notification(primary_intent, apis, s) ==
    IF /\ primary_intent \in CompositeIntents
       /\ detect_notification_intent(s)
       /\ \A n \in DOMAIN apis : apis[n] # "notification"
    THEN Append(apis, "notification")
    ELSE apis

\* the dict both paths return
result(primary_intent, apis, reasoning) ==
    [intent |-> primary_intent, apis |-> apis,
     notify |-> (\E n \in DOMAIN apis : apis[n] = "notification")
                /\ primary_intent # "notification_send",
     reasoning |-> reasoning]

\* lines 142-164: intent and apis by the first keyword list that hits
keyword_intent(s) ==
    IF any_in(s, "weather") THEN "weather_query"
    ELSE IF any_in(s, "calendar")
    THEN IF any_in(s, "create") THEN "calendar_create" ELSE "calendar_query"
    ELSE IF any_in(s, "file") THEN "file_search"
    ELSE IF any_in(s, "notify") THEN "notification_send"
    ELSE IF any_in(s, "help") THEN "help"
    ELSE "chat"

keyword_apis(intent) ==
    IF intent = "weather_query" THEN <<"weather">>
    ELSE IF intent \in {"calendar_query", "calendar_create"} THEN <<"calendar">>
    ELSE IF intent = "file_search" THEN <<"file">>
    ELSE IF intent = "notification_send" THEN <<"notification">>
    ELSE << >>

\* IntentClassifier._fallback_keyword_analysis
fallback_keyword_analysis(s) ==
    result(keyword_intent(s),
           with_notification(keyword_intent(s), keyword_apis(keyword_intent(s)), s),
           "keyword")

\* the intents _extract_primary_intent can return
Intents ==
    {"weather_query", "calendar_query", "calendar_create", "file_search",
     "notification_send", "help", "chat"}

\* lines 105-117: the apis of the intent the LLM named
llm_apis(primary_intent) ==
    IF primary_intent = "weather_query" THEN <<"weather">>
    ELSE IF primary_intent \in {"calendar_query", "calendar_create"} THEN <<"calendar">>
    ELSE IF primary_intent = "file_search" THEN <<"file">>
    ELSE IF primary_intent = "notification_send" THEN <<"notification">>
    ELSE IF primary_intent = "help" THEN << >>
    ELSE <<"rag">>

\* IntentClassifier.analyze_intent with an LLM that named primary_intent
analyze_intent(s, primary_intent) ==
    result(primary_intent,
           with_notification(primary_intent, llm_apis(primary_intent), s),
           "llm")

\* the messages classified first
Messages == {s \in SUBSET Vocabulary : Cardinality(s) <= MaxWords}

\* analyze_intent without an LLM, or with one that raised (lines 67-68, 100-102)
ClsKeyword ==
    /\ analysis = None
    /\ analysis' = Some(fallback_keyword_analysis(user_input))
    /\ UNCHANGED <<user_input, before, topoVars, storeVars, probeVars, reqVars, ctxVars,
                   ragVars>>

\* analyze_intent with an LLM that answered (lines 97-136)
ClsLlm ==
    /\ analysis = None
    /\ \E primary_intent \in Intents :
          analysis' = Some(analyze_intent(user_input, primary_intent))
    /\ UNCHANGED <<user_input, before, topoVars, storeVars, probeVars, reqVars, ctxVars,
                   ragVars>>

\* the user sends the message again with more words in it
ClsAddWords ==
    /\ analysis # None
    /\ nops < MaxAdds
    /\ \E more \in SUBSET Vocabulary :
          /\ more # {}
          /\ more \cap user_input = {}
          /\ Cardinality(more) <= MaxWords
          /\ user_input' = user_input \cup more
    /\ before' = Some([user_input |-> user_input, analysis |-> The(analysis)])
    /\ analysis' = None
    /\ nops' = nops + 1
    /\ UNCHANGED <<got, topoVars, storeVars, reqVars, ctxVars, ragVars>>

InitClassify ==
    /\ InitStore /\ InitProbe /\ InitReq /\ InitCtx /\ InitRag
    /\ llm = FALSE
    /\ tin = << >>
    /\ tout = Unsorted
    /\ user_input \in Messages
    /\ analysis = None
    /\ before = None

NextClassify == ClsKeyword \/ ClsLlm \/ ClsAddWords

ClassifySpec == InitClassify /\ [][NextClassify]_vars

(***************************************************************************)
(* rag-service: indexing (main.py, qdrant_store.py) and the BM25 index of  *)
(* the process (bm25.py).  A docs root is one content of a directory; a    *)
(* chunk is what _build_chunks makes of it.  The collection is the set of  *)
(* its points, a point is its id and its payload.                          *)
(***************************************************************************)
\* the docsets of the two indexing endpoints
Docsets == {"docs", "qdrant_embedding_docs"}

\* the contents a docs root can have: the chunking of its files, as
\* (source, heading_path, text) in file order; "empty" has no file
chunked(root) ==
    CASE root = "v1" -> << [source |-> "a.md", heading_path |-> "H1", text |-> "t1"],
                           [source |-> "a.md", heading_path |-> "H1 > H2", text |-> "t2"] >>
      [] root = "v2" -> << [source |-> "a.md", heading_path |-> "H1", text |-> "t3"] >>
      [] root = "q1" -> << [source |-> "q.txt", heading_path |-> "", text |-> "t4"],
                           [source |-> "q.txt", heading_path |-> "", text |-> "t5"] >>
      [] OTHER -> << >>

\* the roots each endpoint can be pointed at
RootsOf(docset) ==
    IF docset = "docs" THEN {"v1", "v2", "empty"} ELSE {"q1"}

\* _stable_chunk_ids with an id that also depends on the indexing run
run_chunk_ids(docset, source, heading_path, chunk_index) ==
    LET base == docset \o "|" \o source \o "|" \o heading_path \o "|"
                    \o ToString(chunk_index) \o "|" \o ToString(Cardinality(qdrant))
    IN  [point_id |-> "uuid5(" \o base \o ")", chunk_id |-> "ch_sha1(" \o base \o ")"]

\* _stable_chunk_ids: both ids are digests of the base string
stable_chunk_ids(docset, source, heading_path, chunk_index) ==
    LET base == docset \o "|" \o source \o "|" \o heading_path \o "|"
                    \o ToString(chunk_index)
    IN  [point_id |-> "uuid5(" \o base \o ")", chunk_id |-> "ch_sha1(" \o base \o ")"]

\* the index of a chunk within its file: enumerate() restarts for each file
index_in_file(cs, n) ==
    Cardinality({m \in 1..(n - 1) : cs[m].source = cs[n].source})

\* _build_chunks: one chunk dict per chunk of each file
build_chunks(root, docset) ==
    LET cs == chunked(root)
    IN  [n \in DOMAIN cs |->
            LET ids == stable_chunk_ids(docset, cs[n].source, cs[n].heading_path,
                                        index_in_file(cs, n))
            IN  [id |-> ids.point_id, text |-> cs[n].text, source |-> cs[n].source,
                 docset |-> docset, chunk_index |-> index_in_file(cs, n),
                 chunk_id |-> ids.chunk_id, heading_path |-> cs[n].heading_path]]

\* qdrant.delete_by_filter(docset): the points of the other docsets stay
delete_by_filter(points, docset) ==
    {p \in points : p.docset # docset}

\* qdrant.upsert_chunks: a point replaces the point of the same id
upsert_chunks(points, chunks) ==
    LET new == {chunks[n] : n \in DOMAIN chunks}
    IN  {p \in points : \A c \in new : c.id # p.id} \cup new

\* the ids of a chunk list, in order: the documents handed to _bm25.build
doc_ids(chunks) ==
    [n \in DOMAIN chunks |-> chunks[n].id]

\* RECURSIVE helper: a set of ids as a list, in the order scroll returns it
RECURSIVE scroll_order(_)
scroll_order(ids) ==
    IF ids = {} THEN << >>
    ELSE LET x == CHOOSE y \in ids : TRUE IN <<x>> \o scroll_order(ids \ {x})

\* qdrant.scroll_payloads: the points with a text, as documents
scroll_payloads(points) ==
    scroll_order({p.id : p \in points})

\* an indexing request and its outcome, without the request before it
request(r) ==
    [docset |-> r.docset, root |-> r.root, recreate |-> r.recreate,
     replace_docset |-> r.replace_docset, ok |-> r.ok]

\* what a handler answered or read: for a reader of the index the documents
\* it read (or counted) and the documents of the last complete build
answered(reader, status, docs, whole) ==
    [reader |-> reader, status |-> status, docs |-> docs, whole |-> whole]

idle(whole) == [at |-> "idle", who |-> "none", pending |-> << >>, whole |-> whole]

\* index_docs / index_qdrant_embedding_docs up to the call of
\* _refresh_bm25_from_chunks.  recreate clears the index under the lock;
\* upsert_chunks raises when the embedding call or the store fails (ok = FALSE).
IndexDocs ==
    /\ building.at = "idle"
    /\ \E docset \in Docsets, recreate \in BOOLEAN, replace_docset \in BOOLEAN,
          ok \in BOOLEAN :
       \E root \in RootsOf(docset) :
        LET chunks   == build_chunks(root, docset)
            kept     == IF recreate THEN {}
                        ELSE IF replace_docset /\ chunks # << >>
                             THEN delete_by_filter(qdrant, docset)
                             ELSE qdrant
            whole    == IF recreate THEN << >> ELSE building.whole
        IN  /\ recreate => bm25_lock = "free"
            /\ bm25' = IF recreate THEN << >> ELSE bm25
            /\ rag_in' = Some([docset |-> docset, root |-> root, recreate |-> recreate,
                               replace_docset |-> replace_docset, ok |-> ok,
                               prev |-> {request(r) : r \in rag_in}])
            /\ IF chunks = << >>
               THEN /\ qdrant' = kept
                    /\ building' = idle(whole)
                    /\ rag_out' = Some(answered("index", 200, << >>, << >>))
               ELSE IF ok
               THEN /\ qdrant' = upsert_chunks(kept, chunks)
                    /\ building' = [at |-> "refresh", who |-> "index",
                                    pending |-> doc_ids(chunks), whole |-> whole]
                    /\ rag_out' = None
               ELSE /\ qdrant' = kept
                    /\ building' = idle(whole)
                    /\ rag_out' = Some(answered("index", 500, << >>, << >>))
    /\ ensuring' = IF ensuring.at = "idle" THEN resting
                   ELSE [ensuring EXCEPT !.overlapped = TRUE]
    /\ UNCHANGED <<bm25_lock>>
    /\ UNCHANGED <<topoVars, storeVars, probeVars, reqVars, ctxVars, clsVars>>

\* `with _bm25_lock:` of _refresh_bm25_from_chunks (267) and of the second
\* block of _ensure_bm25_from_qdrant_if_empty (288-291), which builds only
\* when the index is still empty
BmAcquire ==
    /\ building.at = "refresh"
    /\ bm25_lock = "free"
    /\ IF building.who = "ensure" /\ Len(bm25) # 0
       THEN /\ building' = idle(building.whole)
            /\ UNCHANGED bm25_lock
       ELSE /\ bm25_lock' = building.who
            /\ building' = [building EXCEPT !.at = "build"]
    /\ UNCHANGED <<bm25, qdrant, rag_in, rag_out, ensuring>>
    /\ UNCHANGED <<topoVars, storeVars, probeVars, reqVars, ctxVars, clsVars>>

\* BM25Index.build, line 66: self.clear()
BmClear ==
    /\ building.at = "build"
    /\ bm25' = << >>
    /\ building' = [building EXCEPT !.at = "add"]
    /\ UNCHANGED <<bm25_lock, qdrant, rag_in, rag_out, ensuring>>
    /\ UNCHANGED <<topoVars, storeVars, probeVars, reqVars, ctxVars, clsVars>>

\* BM25Index.build, lines 67-68: one _add_doc
BmAddDoc ==
    /\ building.at = "add"
    /\ building.pending # << >>
    /\ bm25' = Append(bm25, Head(building.pending))
    /\ building' = [building EXCEPT !.pending = Tail(@)]
    /\ UNCHANGED <<bm25_lock, qdrant, rag_in, rag_out, ensuring>>
    /\ UNCHANGED <<topoVars, storeVars, probeVars, reqVars, ctxVars, clsVars>>

\* the end of build and of the with block: the lock is released and the
\* index handler returns
BmRelease ==
    /\ building.at = "add"
    /\ building.pending = << >>
    /\ bm25_lock' = "free"
    /\ building' = idle(bm25)
    /\ rag_out' = IF building.who = "index"
                  THEN Some(answered("index", 200, bm25, bm25))
                  ELSE rag_out
    /\ UNCHANGED <<bm25, qdrant, rag_in, ensuring>>
    /\ UNCHANGED <<topoVars, storeVars, probeVars, reqVars, ctxVars, clsVars>>

\* _ensure_bm25_from_qdrant_if_empty, lines 277-286: the emptiness check
\* under the lock, then the scroll outside of it
BmEnsure ==
    /\ building.at = "idle"
    /\ bm25_lock = "free"
    /\ rag_out' = Some(answered("ensure", 200, bm25, building.whole))
    /\ building' = IF Len(bm25) > 0 THEN building
                   ELSE [at |-> "refresh", who |-> "ensure",
                         pending |-> scroll_payloads(qdrant), whole |-> building.whole]
    /\ UNCHANGED <<bm25, bm25_lock, qdrant, rag_in, ensuring>>
    /\ UNCHANGED <<topoVars, storeVars, probeVars, reqVars, ctxVars, clsVars>>

\* _hybrid_search, lines 424-425: _bm25.search under the lock
BmSearch ==
    /\ bm25_lock = "free"
    /\ rag_out' = Some(answered("search", 200, bm25, building.whole))
    /\ UNCHANGED <<bm25, bm25_lock, building, qdrant, rag_in, ensuring>>
    /\ UNCHANGED <<topoVars, storeVars, probeVars, reqVars, ctxVars, clsVars>>

\* health, line 239, and rag_query, line 516: len(_bm25) without the lock
BmSize ==
    /\ \E reader \in {"health", "query"} :
        rag_out' = Some(answered(reader, 200, bm25, building.whole))
    /\ UNCHANGED <<bm25, bm25_lock, building, qdrant, rag_in, ensuring>>
    /\ UNCHANGED <<topoVars, storeVars, probeVars, reqVars, ctxVars, clsVars>>

NextIndex ==
    \/ IndexDocs
    \/ BmAcquire
    \/ BmClear
    \/ BmAddDoc
    \/ BmRelease
    \/ BmEnsure
    \/ BmSearch
    \/ BmSize

IndexSpec == InitStoreSpec /\ [][NextIndex]_vars

(***************************************************************************)
(* EnsureSpec: _ensure_bm25_from_qdrant_if_empty as a thread of its own    *)
(* next to the index requests.  Every writer of _bm25 holds _bm25_lock, so *)
(* a build of the rebuild is one step.                                     *)
(***************************************************************************)
\* lines 277-279: the emptiness check under the lock
EnsureCheck ==
    /\ ensuring.at = "idle"
    /\ bm25_lock = "free"
    /\ rag_out' = Some(answered("ensure", 200, bm25, building.whole))
    /\ ensuring' = IF Len(bm25) > 0 THEN resting
                   ELSE [at |-> "scroll", docs |-> << >>,
                         overlapped |-> building.at # "idle", installed |-> {}]
    /\ UNCHANGED <<bm25, bm25_lock, building, qdrant, rag_in>>
    /\ UNCHANGED <<topoVars, storeVars, probeVars, reqVars, ctxVars, clsVars>>

\* lines 281-286: the scroll of the collection, outside the lock
EnsureScroll ==
    /\ ensuring.at = "scroll"
    /\ ensuring' = [ensuring EXCEPT !.at = "recheck", !.docs = scroll_payloads(qdrant)]
    /\ UNCHANGED <<bm25, bm25_lock, building, qdrant, rag_in, rag_out>>
    /\ UNCHANGED <<topoVars, storeVars, probeVars, reqVars, ctxVars, clsVars>>

\* lines 288-291: under the lock again, the index is built from what the
\* scroll returned if it is still empty
EnsureRecheck ==
    /\ ensuring.at = "recheck"
    /\ bm25_lock = "free"
    /\ bm25' = IF Len(bm25) = 0 THEN ensuring.docs ELSE bm25
    /\ building' = [building EXCEPT !.whole = bm25']
    /\ ensuring' = [at |-> "idle", docs |-> << >>, overlapped |-> ensuring.overlapped,
                    installed |-> IF Len(bm25) = 0
                                  THEN {ensuring.docs[n] : n \in DOMAIN ensuring.docs}
                                  ELSE {}]
    /\ UNCHANGED <<bm25_lock, qdrant, rag_in, rag_out>>
    /\ UNCHANGED <<topoVars, storeVars, probeVars, reqVars, ctxVars, clsVars>>

NextEnsure ==
    \/ IndexDocs
    \/ BmAcquire
    \/ BmClear
    \/ BmAddDoc
    \/ BmRelease
    \/ EnsureCheck
    \/ EnsureScroll
    \/ EnsureRecheck

EnsureSpec == InitStoreSpec /\ [][NextEnsure]_vars

(***************************************************************************)
(* rag-service: BM25 search (bm25.py) and hybrid search (main.py).  A      *)
(* string of a payload or of a filter is the sequence of its letters.  A   *)
(* document of the index carries the score lines 143-152 give it for the   *)
(* query, as a whole number; 0 stands for a document without a query term. *)
(* A fused score is a fraction n/d with d > 0, so that comparing two of    *)
(* them is exact.                                                          *)
(***************************************************************************)
DocIds == {"d1", "d2", "d3"}

\* the payload stored with each chunk
PayloadOf(id) ==
    CASE id = "d1" -> [docset |-> <<"a">>, source |-> <<"a", "b">>]
      [] id = "d2" -> [docset |-> <<"b">>, source |-> <<"b", "a">>, lang |-> <<"a">>]
      [] OTHER     -> [docset |-> <<"a">>, source |-> <<"b">>]

\* the filters of a request: a dict from key to the list of its candidates
\* (a scalar value is the list of itself)
FilterDicts ==
    { << >>,
      [docset |-> << <<"a">> >>],
      [docset |-> << <<"b">>, <<"a">> >>],
      [docset |-> << >>],
      [lang |-> << <<"a">> >>],
      [source__prefix |-> << <<"b">> >>],
      [docset |-> << <<"a">> >>, source__contains |-> << <<"a">>, <<"b", "b">> >>] }

\* k.endswith("__prefix") / k.endswith("__contains") and the field left of it
op_of(k) ==
    CASE k = "source__prefix"   -> "prefix"
      [] k = "source__contains" -> "contains"
      [] OTHER                  -> "eq"

field_of(k) ==
    IF op_of(k) = "eq" THEN k ELSE "source"

\* str.startswith and `in` on strings
startswith(pv, cand) ==
    Len(cand) <= Len(pv) /\ SubSeq(pv, 1, Len(cand)) = cand

contains(pv, cand) ==
    \E n \in 0..(Len(pv) - Len(cand)) : SubSeq(pv, n + 1, n + Len(cand)) = cand

\* match_filters of bm25.py and _match_filters of main.py, the same rules:
\* every clause must hold, a clause holds when one candidate matches, a
\* payload without the field fails the clause
match_filters(payload, filters) ==
    \A k \in DOMAIN filters :
        /\ field_of(k) \in DOMAIN payload
        /\ \E c \in DOMAIN filters[k] :
            LET pv   == payload[field_of(k)]
                cand == filters[k][c]
            IN  CASE op_of(k) = "eq"     -> pv = cand
                  [] op_of(k) = "prefix" -> startswith(pv, cand)
                  [] OTHER               -> contains(pv, cand)

\* fractions
Frac(n, d) == [n |-> n, d |-> d]
less(f, g) == f.n * g.d < g.n * f.d
plus(f, g) == Frac(f.n * g.d + g.n * f.d, f.d * g.d)

\* list[:k] for k >= 0
Take(list, k) == SubSeq(list, 1, Min(k, Len(list)))

\* list.sort(key=..., reverse=True) with the order of equal keys reversed
RECURSIVE sort_order_unstable(_, _)
sort_order_unstable(keys, n) ==
    IF n = 0 THEN << >>
    ELSE LET rest == sort_order_unstable(keys, n - 1)
             m    == Cardinality({j \in DOMAIN rest : less(keys[n], keys[rest[j]])})
         IN  SubSeq(rest, 1, m) \o <<n>> \o SubSeq(rest, m + 1, Len(rest))

\* list.sort(key=..., reverse=True): the positions 1..n of the list in
\* descending order of their keys; positions of equal keys keep their order
RECURSIVE sort_order(_, _)
sort_order(keys, n) ==
    IF n = 0 THEN << >>
    ELSE LET rest == sort_order(keys, n - 1)
             m    == Cardinality({j \in DOMAIN rest : ~less(keys[rest[j]], keys[n])})
         IN  SubSeq(rest, 1, m) \o <<n>> \o SubSeq(rest, m + 1, Len(rest))

\* BM25Index.search with the filters applied before the cut to top_k
search_filter_first(docs, top_k, payload_filters) ==
    LET positive == SelectSeq(docs, LAMBDA d : d.score > 0)
        order    == sort_order([n \in DOMAIN positive |-> Frac(positive[n].score, 1)],
                               Len(positive))
        scores   == [n \in DOMAIN order |-> positive[order[n]]]
        passing  == SelectSeq(scores, LAMBDA d : match_filters(d.payload, payload_filters))
    IN  [n \in DOMAIN Take(passing, top_k) |->
            [id |-> passing[n].id, bm25_score |-> passing[n].score,
             payload |-> passing[n].payload]]

\* BM25Index.search: the documents of positive score, sorted, cut to top_k,
\* then filtered
search(docs, top_k, payload_filters) ==
    LET positive == SelectSeq(docs, LAMBDA d : d.score > 0)
        order    == sort_order([n \in DOMAIN positive |-> Frac(positive[n].score, 1)],
                               Len(positive))
        scores   == Take([n \in DOMAIN order |-> positive[order[n]]], top_k)
        passing  == SelectSeq(scores, LAMBDA d : match_filters(d.payload, payload_filters))
    IN  [n \in DOMAIN Take(passing, top_k) |->
            [id |-> passing[n].id, bm25_score |-> passing[n].score,
             payload |-> passing[n].payload]]

\* the defaults of _hybrid_search; alpha is given in tenths
vector_mult == 4
bm25_mult == 4
min_candidates == 20
rrf_k == 60
Alphas == {0, 6, 10}
Fusions == {"rrf", "minmax"}

\* _to_qdrant_filter: the clauses without a suffix go to Qdrant
to_qdrant_filter(filters) ==
    [k \in {x \in DOMAIN filters : op_of(x) = "eq"} |-> filters[k]]

\* qdrant.vector_search: the points that pass the filter, by similarity
vector_search(ranked, top_k, qdrant_filter) ==
    Take(SelectSeq(ranked, LAMBDA h : match_filters(h.payload, qdrant_filter)), top_k)

\* the position of the first hit with this id in a list, 0 when there is none:
\* vec_rank / bm_rank of lines 432-445, None as 0
rank_in(hits, id) ==
    IF \E n \in DOMAIN hits : hits[n].id = id
    THEN CHOOSE n \in DOMAIN hits :
            hits[n].id = id /\ \A m \in 1..(n - 1) : hits[m].id # id
    ELSE 0

\* by_id of lines 428-450: the vector hits, then the BM25 hits not among
\* them, each with both scores (0 where the list has no such hit)
by_id(vec_hits, bm_hits) ==
    LET more == SelectSeq(bm_hits, LAMBDA h : rank_in(vec_hits, h.id) = 0)
        ids  == [n \in 1..(Len(vec_hits) + Len(more)) |->
                    IF n <= Len(vec_hits) THEN vec_hits[n].id
                    ELSE more[n - Len(vec_hits)].id]
    IN  [n \in DOMAIN ids |->
            [id |-> ids[n], payload |-> PayloadOf(ids[n]),
             vector_score |-> IF rank_in(vec_hits, ids[n]) = 0 THEN 0
                              ELSE vec_hits[rank_in(vec_hits, ids[n])].vector_score,
             bm25_score |-> IF rank_in(bm_hits, ids[n]) = 0 THEN 0
                            ELSE bm_hits[rank_in(bm_hits, ids[n])].bm25_score]]

\* min and max of a non-empty list of numbers
min(scores) ==
    CHOOSE x \in {scores[n] : n \in DOMAIN scores} : \A n \in DOMAIN scores : x <= scores[n]

max(scores) ==
    CHOOSE x \in {scores[n] : n \in DOMAIN scores} : \A n \in DOMAIN scores : x >= scores[n]

\* _minmax_norm
minmax_norm(scores) ==
    IF scores = << >> THEN << >>
    ELSE IF max(scores) <= min(scores) THEN [n \in DOMAIN scores |-> Frac(0, 1)]
    ELSE [n \in DOMAIN scores |-> Frac(scores[n] - min(scores), max(scores) - min(scores))]

\* _rrf_fuse with a hit that a list does not hold ranked behind its last hit
rrf_fuse_ranked_last(vr, br, alpha) ==
    plus(Frac(alpha, rrf_k + (IF vr # 0 THEN vr ELSE MaxDocs + 1)),
         Frac(10 - alpha, rrf_k + (IF br # 0 THEN br ELSE MaxDocs + 1)))

\* _rrf_fuse for one id: alpha / (k + rank) for the vector list plus
\* (1 - alpha) / (k + rank) for the BM25 list, a list without the id adds nothing
rrf_fuse(vr, br, alpha) ==
    plus(IF vr # 0 THEN Frac(alpha, rrf_k + vr) ELSE Frac(0, 1),
         IF br # 0 THEN Frac(10 - alpha, rrf_k + br) ELSE Frac(0, 1))

times(a, f) == Frac(a * f.n, f.d)

\* _hybrid_search from line 427 on
fuse(vec_hits, bm_hits, filters, top_k, alpha, fusion) ==
    LET cands    == SelectSeq(by_id(vec_hits, bm_hits),
                           LAMBDA c : match_filters(c.payload, filters))
        vec_norm == minmax_norm([n \in DOMAIN cands |-> cands[n].vector_score])
        bm_norm  == minmax_norm([n \in DOMAIN cands |-> cands[n].bm25_score])
        score    == [n \in DOMAIN cands |->
                        IF fusion = "minmax"
                        THEN plus(times(alpha, vec_norm[n]), times(10 - alpha, bm_norm[n]))
                        ELSE rrf_fuse(rank_in(vec_hits, cands[n].id),
                                      rank_in(bm_hits, cands[n].id), alpha)]
        order    == sort_order(score, Len(cands))
    IN  Take([n \in DOMAIN order |->
                [id |-> cands[order[n]].id, score |-> score[order[n]],
                 vector_score |-> cands[order[n]].vector_score,
                 bm25_score |-> cands[order[n]].bm25_score]], top_k)

Max(a, b) == IF a >= b THEN a ELSE b

\* _hybrid_search, with the index already built
hybrid_search(q) ==
    LET vector_k == Max(q.top_k * vector_mult, min_candidates)
        bm25_k   == Max(q.top_k * bm25_mult, min_candidates)
        vec_hits == vector_search(q.ranked, vector_k, to_qdrant_filter(q.filters))
        bm_hits  == search(q.docs, bm25_k, q.filters)
    IN  [vec_hits |-> vec_hits, bm_hits |-> bm_hits,
         hits |-> fuse(vec_hits, bm_hits, q.filters, q.top_k, q.alpha, q.fusion)]

\* the lists of at most n distinct ids
IdLists(n) ==
    {l \in UNION {[1..m -> DocIds] : m \in 0..n} :
        \A a, b \in DOMAIN l : a # b => l[a] # l[b]}

\* the documents of an index: distinct chunks, each with its score
Corpora ==
    UNION {{[n \in DOMAIN l |-> [id |-> l[n], score |-> sc[n], payload |-> PayloadOf(l[n])]] :
                sc \in [DOMAIN l -> 0..MaxScore]} : l \in IdLists(MaxDocs)}

\* what Qdrant ranks for a query: distinct points, the most similar first
Rankings ==
    UNION {{[n \in DOMAIN l |-> [id |-> l[n], vector_score |-> sc[n],
                                    payload |-> PayloadOf(l[n])]] :
                sc \in {f \in [DOMAIN l -> 0..MaxScore] :
                            \A a, b \in DOMAIN l : a < b => f[a] >= f[b]}} :
            l \in IdLists(MaxVecHits)}

\* a call of BM25Index.search
InitBm25 ==
    /\ InitStore /\ InitProbe /\ InitReq /\ InitCtx /\ InitCls
    /\ llm = FALSE
    /\ tin = << >> /\ tout = Unsorted
    /\ bm25 = << >> /\ bm25_lock = "free" /\ building = idle(<< >>) /\ qdrant = {}
    /\ ensuring = resting
    /\ \E docs \in Corpora, filters \in FilterDicts, top_k \in 1..MaxTopK :
        rag_in = Some([docs |-> docs, ranked |-> << >>, filters |-> filters,
                       top_k |-> top_k, alpha |-> 6, fusion |-> "rrf"])
    /\ rag_out = None

Bm25Search ==
    /\ rag_out = None
    /\ \E q \in rag_in :
        rag_out' = Some([vec_hits |-> << >>, bm_hits |-> << >>,
                         hits |-> search(q.docs, q.top_k, q.filters)])
    /\ UNCHANGED <<bm25, bm25_lock, building, qdrant, rag_in, ensuring>>
    /\ UNCHANGED <<topoVars, storeVars, probeVars, reqVars, ctxVars, clsVars>>

NextBm25 ==
    \/ Bm25Search

Bm25Spec == InitBm25 /\ [][NextBm25]_vars

\* a call of _hybrid_search
InitHybrid ==
    /\ InitStore /\ InitProbe /\ InitReq /\ InitCtx /\ InitCls
    /\ llm = FALSE
    /\ tin = << >> /\ tout = Unsorted
    /\ bm25 = << >> /\ bm25_lock = "free" /\ building = idle(<< >>) /\ qdrant = {}
    /\ ensuring = resting
    /\ \E docs \in Corpora, ranked \in Rankings, filters \in FilterDicts,
          top_k \in 1..MaxTopK, alpha \in Alphas, fusion \in Fusions :
        /\ Len(docs) + Len(ranked) <= MaxHits
        /\ rag_in = Some([docs |-> docs, ranked |-> ranked, filters |-> filters,
                          top_k |-> top_k, alpha |-> alpha, fusion |-> fusion])
    /\ rag_out = None

HybridSearch ==
    /\ rag_out = None
    /\ \E q \in rag_in : rag_out' = Some(hybrid_search(q))
    /\ UNCHANGED <<bm25, bm25_lock, building, qdrant, rag_in, ensuring>>
    /\ UNCHANGED <<topoVars, storeVars, probeVars, reqVars, ctxVars, clsVars>>

NextHybrid ==
    \/ HybridSearch

HybridSpec == InitHybrid /\ [][NextHybrid]_vars

(***************************************************************************)
(* Properties of the request handler and the executor.                     *)
(***************************************************************************)
FailedCalls == {n \in DOMAIN calls : ~calls[n].ok}

\* C1: a failing downstream tool call is never fatal to the request: with
\* the LLM pipeline and in the rule-based branch alike, a request in which a
\* downstream call failed still ends with a response, not with an exception
C1_FailureNeverFatal ==
    (pc = "done" /\ FailedCalls # {}) => outcome = "response"

Count(what) == Cardinality({n \in DOMAIN trace : trace[n] = what})

Adoptions == Count("adopt")

\* C2: execute_plan terminates and adopts a replan result at most max_replans
\* times: the adoptions never exceed max_replans, i stays within the task
\* list, and every iteration of the loop that stays in the loop either adopts
\* a plan or moves i closer to the end of an unchanged-length remainder, so
\* the pair (max_replans - adoptions, len(current_tasks) - i) descends
C2_ExecutorTerminates ==
    [][ /\ Adoptions' <= max_replans
        /\ pc' = "exec" => i' <= Len(current_tasks')
        /\ (pc = "exec" /\ pc' = "exec" /\ trace' # trace) =>
              \/ Adoptions' = Adoptions + 1
              \/ /\ Adoptions' = Adoptions
                 /\ Len(current_tasks') - i' < Len(current_tasks) - i ]_vars

\* execute_plan has returned after max_replans adoptions and one more failure,
\* for which no plan was asked
C2_Witness ==
    /\ pc = "final"
    /\ Adoptions = max_replans
    /\ observations # << >>
    /\ observations[Len(observations)].kind = "error"
    /\ last.kind = "return"

AfterFailure == last.kind = "call_fail"

C3_WitnessEmptySort ==
    /\ AfterFailure
    /\ last.asked = 1
    /\ The(last.raw) # << >>
    /\ agentic_topo_sort(The(last.raw)) = << >>

\* the last step was the executor working on a tool task
ToolStep == last.kind \in {"cached", "call_ok", "call_fail", "replan_raise"}

\* the last step answered the task from the cache: the observation it
\* appended says cached, and no downstream call was added
AnsweredFromCache ==
    /\ last.kind = "cached"
    /\ observations # << >>
    /\ observations[Len(observations)].cached
    /\ Len(calls) = last.calls_before

\* C4: within one session, once a tool call has succeeded, every later
\* execution of the tool with canonically equal arguments within the tool's
\* TTL is answered from the cache and makes no downstream call
C4_RepeatWithinTtlIsCached ==
    (ToolStep /\ last.prior # None
        /\ \A ttl \in tool_ttl(last.call.tool) : last.at - The(last.prior).at <= ttl)
    => AnsweredFromCache

\* weather.get is answered from the cache in the same request after a replan
\* restart, at an age equal to its TTL
C4_Witness ==
    /\ AnsweredFromCache
    /\ last.replans_before > 0
    /\ last.call.tool = "weather.get"
    /\ last.at - The(last.prior).at = 300

\* a later request is answered from the cache
C4_WitnessLaterRequest ==
    /\ AnsweredFromCache
    /\ nreq = 2
    /\ last.replans_before = 0
    /\ last.call.tool = "weather.get"
    /\ last.at - The(last.prior).at = 300

\* C6: for a tool without TTL (calendar.create, notification.send) a result
\* cached in a session never expires: every later call of the tool with
\* canonically equal arguments in the session is answered from the cache,
\* whatever time has passed, and the downstream is not called again
C6_NoTtlNeverExpires ==
    (ToolStep /\ last.prior # None
        /\ last.call.tool \in {"calendar.create", "notification.send"})
    => AnsweredFromCache

\* calendar.create is answered from the cache at an age beyond every TTL of
\* the registry and beyond the session timeout
C6_Witness ==
    /\ AnsweredFromCache
    /\ last.call.tool = "calendar.create"
    /\ last.at - The(last.prior).at > session_timeout_hours * SecondsPerHour

\* the events of a request that ran the whole pipeline: classify, plan, the
\* executor's steps, one final answer
PipelineEvents == {"tool", "note", "adopt"}

\* C10: an LLM-enabled request none of whose LLM calls failed passes through
\* classifying, planning, executing and synthesizing in this order and then is
\* done: the first events are classify and plan, the executor's steps follow
\* (planning re-entered only by its replans), and the final answer is asked
\* once, as the last event
C10_PipelineOrder ==
    (llm /\ pc = "done" /\ Count("llm_raise") = 0) =>
        /\ Len(trace) >= 3
        /\ trace[1] = "classify"
        /\ trace[2] = "plan"
        /\ trace[Len(trace)] = "final"
        /\ \A n \in 3 .. Len(trace) - 1 : trace[n] \in PipelineEvents
        /\ outcome = "response"

Raised == Count("llm_raise") + Count("fill_raise") > 0

\* the todo list the rule-based branch shows for an intent
RuleTodoFor(intent, notify) ==
    LET extra == IF notify THEN 3 ELSE 0
    IN IF intent \in {"weather_query", "calendar_query", "calendar_create", "file_search"}
       THEN 3 + extra
       ELSE IF intent = "notification_send" THEN 3
       ELSE IF intent = "help" THEN 1 ELSE 2

C12_ExecutorListNeverEmpty ==
    pc = "exec" => current_tasks # << >>

\* the turns of the request's session, none if the session is not there
Turns ==
    IF sessions[TheSession] = None THEN 0 ELSE The(sessions[TheSession]).turns

\* C16: every unary request that returns a response appends exactly one
\* turn to its session: the step that ends a request with a response adds
\* one turn, and no other step of a request adds any
C16_OneTurnPerResponse ==
    [][ /\ (pc # "done" /\ pc' = "done" /\ outcome' = "response") => Turns' = Turns + 1
        /\ Turns' > Turns => (pc # "done" /\ pc' = "done" /\ outcome' = "response") ]_vars

\* the downstream calls the rule-based branch has made in this request
RuleCalls == SelectSeq(calls, LAMBDA c : c.by = "rule")

\* the request is in the rule-based branch of a weather query with a
\* notification detected
WeatherAndNotify ==
    /\ pc \in {"rule", "done"}
    /\ meta # None
    /\ The(meta).intent = "weather_query"
    /\ The(meta).notify

\* C21: in the rule-based branch of handle, for a weather query with a
\* notification detected, the weather service is called first and the
\* notification service after it, with the weather summary as its message,
\* and the answer returned holds the weather summary and the confirmation
\* of the sending.
C21_WeatherThenNotify ==
    WeatherAndNotify =>
        /\ \A n \in DOMAIN RuleCalls :
              IF n = 1 THEN RuleCalls[n].tool = "weather.get"
              ELSE /\ n = 2
                   /\ RuleCalls[1].ok
                   /\ RuleCalls[n].tool = "notification.send"
                   /\ RuleCalls[n].args = << [k |-> "message", v |-> "weather_summary"] >>
        /\ (pc = "done" /\ outcome = "response") =>
              /\ Len(RuleCalls) = 2
              /\ \A n \in DOMAIN RuleCalls : RuleCalls[n].ok
              /\ {"weather_summary", "notification_sent"} \subseteq answer

\* such a request has been answered after its two calls
C21_Witness ==
    /\ WeatherAndNotify
    /\ pc = "done" /\ outcome = "response"
    /\ Len(RuleCalls) = 2
    /\ RuleCalls[2].tool = "notification.send"
    /\ answer = {"weather_summary", "notification_sent"}

\* C28: a task whose tool is not in the registry is executed as a note: its
\* observation is a note, not an error, and its failure never asks the
\* planner for a new plan.
C28_UnknownToolIsNote ==
    /\ \A n \in DOMAIN observations :
          observations[n].tool \notin ToolNames => observations[n].kind = "note"
    /\ (last.kind = "call_fail" /\ last.asked = 1) => last.call.tool \in ToolNames

\* the downstream calls the executor has made in this request
ExecutorCalls == SelectSeq(calls, LAMBDA c : c.by = "executor")

\* the final-answer call of this request raised
FinalFailed == Count("synthesize") > 0

\* C30: in the LLM pipeline the answer to a request whose final-answer call
\* returned no text or raised is the apology text: an answer that follows the
\* final-answer call is never empty, and once that call has raised no tool is
\* called again and the response, when it comes, is the apology.
C30_FinalAnswerApology ==
    /\ (llm /\ pc = "done" /\ outcome = "response") => answer # {} /\ "" \notin answer
    /\ FinalFailed => RuleCalls = << >>
    /\ (FinalFailed /\ pc = "done") => outcome = "response" /\ answer = {apology}

(***************************************************************************)
(* Properties of the streaming handler.                                    *)
(***************************************************************************)
DoneEvents == {n \in DOMAIN events : events[n].done}

\* C13: every stream that has ended (here: without an exception) emitted
\* exactly one event with done, as its last event, with a final text and with
\* completed equal to the length of its todo list
C13_OneDoneEventLast ==
    (pc = "done" /\ outcome = "response" /\ events # << >>) =>
        /\ DoneEvents = {Len(events)}
        /\ LastEvent.final # None
        /\ LastEvent.completed = Len(LastEvent.todo)

\* C14: every stream that has ended, ended with an event whose final text is
\* not empty
C14_FinalTextNonEmpty ==
    (pc = "done" /\ events # << >>) =>
        /\ LastEvent.final # None
        /\ LastEvent.final # Some("")

\* C15: the first event of a stream has an empty todo and the status
\* "analyzing intent", the second an empty todo and the status "planning",
\* the third the populated todo with completed 0 and the status "plan ready"
C15_OpeningEvents ==
    /\ Len(events) >= 1 =>
          /\ events[1].todo = << >> /\ events[1].completed = 0
          /\ events[1].status = "analyzing intent"
    /\ Len(events) >= 2 =>
          /\ events[2].todo = << >> /\ events[2].completed = 0
          /\ events[2].status = "planning"
    /\ Len(events) >= 3 =>
          /\ events[3].todo # << >> /\ events[3].completed = 0
          /\ events[3].status = "plan ready"

(***************************************************************************)
(* Properties of the classifier.                                           *)
(***************************************************************************)
Listed(api, a) == \E n \in DOMAIN a.apis : a.apis[n] = api

\* C22: notification detection is monotone: when the keyword analysis of a
\* message lists notification in its apis, the keyword analysis of the
\* message with more words added lists it too.
C22_NotificationMonotone ==
    \A b \in before, a \in analysis :
        (b.analysis.reasoning = "keyword" /\ a.reasoning = "keyword"
         /\ Listed("notification", b.analysis))
        => Listed("notification", a)

\* the apis a result lists apart from the appended composite notification
BaseApis(a) ==
    IF a.intent \in CompositeIntents
    THEN SelectSeq(a.apis, LAMBDA api : api # "notification")
    ELSE a.apis

\* the apis the claim gives for an intent
ClaimedApis ==
    [weather_query |-> <<"weather">>, calendar_query |-> <<"calendar">>,
     calendar_create |-> <<"calendar">>, file_search |-> <<"file">>,
     notification_send |-> <<"notification">>, help |-> << >>, chat |-> <<"rag">>]

\* C23: apart from the appended composite notification entry the apis list
\* is a function of the intent alone, the same on the LLM path and on the
\* keyword path: [weather], [calendar], [calendar], [file], [notification],
\* [] for help and [rag] for chat.
C23_ApisFromIntent ==
    \A a \in analysis : BaseApis(a) = ClaimedApis[a.intent]

(***************************************************************************)
(* Properties of the context store.                                        *)
(***************************************************************************)
\* the full history of a session and its window, empty when absent
HistoryOf(sid) ==
    IF active_sessions[sid] = None THEN << >>
    ELSE The(active_sessions[sid]).conversation_turns
WindowOf(sid) ==
    IF context_windows[sid] = None THEN << >> ELSE The(context_windows[sid])

\* the last k elements of a sequence, oldest first
LastK(seq, k) == [n \in 1..k |-> seq[Len(seq) - k + n]]

\* C18: after any sequence of store operations every session has a window,
\* every window has a session, and the window holds exactly the most recent
\* min(length of the full history, max_history_length) turns of the history
\* in the same order, so never more than max_history_length of them.
C18_WindowIsHistoryTail ==
    \A sid \in CtxSessionIds :
        /\ (active_sessions[sid] = None) <=> (context_windows[sid] = None)
        /\ Len(WindowOf(sid)) <= max_history_length
        /\ LET h == HistoryOf(sid)
               k == IF Len(h) < max_history_length THEN Len(h)
                    ELSE max_history_length
           IN  WindowOf(sid) = LastK(h, k)

\* a session has recorded more turns than its window can hold
C18_Witness ==
    \E sid \in CtxSessionIds :
        /\ Len(HistoryOf(sid)) > max_history_length
        /\ Len(WindowOf(sid)) = max_history_length
        /\ WindowOf(sid)[1] = 2

\* the sessions idle for longer than the timeout
Stale ==
    {sid \in CtxSessionIds :
        /\ active_sessions[sid] # None
        /\ now - The(active_sessions[sid]).last_activity
             > session_timeout_hours * SecondsPerHour}

\* C19: a reclaimer sweep, the only step after which a session is gone,
\* removes exactly the sessions idle for longer than the timeout, from the
\* session table and from the window table, and leaves every other session
\* with its turns, its window and its tool cache as they were.
C19_SweepRemovesExactlyExpired ==
    [][ (\E gone \in CtxSessionIds :
            active_sessions[gone] # None /\ active_sessions'[gone] = None)
        => \A sid \in CtxSessionIds :
              IF sid \in Stale
              THEN active_sessions'[sid] = None /\ context_windows'[sid] = None
              ELSE /\ active_sessions'[sid] = active_sessions[sid]
                   /\ context_windows'[sid] = context_windows[sid] ]_vars

\* a session with turns has been swept while another one, with turns and a
\* cached result, is still there
C19_Witness ==
    \E gone \in CtxSessionIds, kept \in CtxSessionIds :
        /\ active_sessions[gone] = None /\ context_windows[gone] = None
        /\ active_sessions[kept] # None
        /\ Len(HistoryOf(kept)) > 0
        /\ WindowOf(kept) = HistoryOf(kept)
        /\ DOMAIN The(active_sessions[kept]).tool_cache # {}
        /\ nturns > Len(HistoryOf(kept))

\* C20: get_recent_turns(session, n) returns exactly the last
\* min(n, window size) turns of the session's window, oldest first, for
\* every n >= 0: nothing for n = 0 and nothing for an unknown session.
C20_RecentIsLastN ==
    \A r \in recent :
        LET w == WindowOf(r.session_id)
            k == IF r.n < Len(w) THEN r.n ELSE Len(w)
        IN  r.turns = LastK(w, k)

\* a session that is there before and after a step
Stays(sid) == active_sessions[sid] # None /\ active_sessions'[sid] # None

\* s is a prefix of t
IsPrefix(s, t) == Len(s) <= Len(t) /\ \A n \in DOMAIN s : t[n] = s[n]

\* C17: the store operations, get_or_create included, are atomic, so under
\* every interleaving of requests and the reclaimer no session is visible
\* without its window, and a session that stays keeps every turn of its
\* history and every entry of its tool cache.
C17_AtomicStore ==
    [][ \A sid \in CtxSessionIds :
          /\ active_sessions'[sid] # None => context_windows'[sid] # None
          /\ Stays(sid) =>
                /\ IsPrefix(The(active_sessions[sid]).conversation_turns,
                            The(active_sessions'[sid]).conversation_turns)
                /\ DOMAIN The(active_sessions[sid]).tool_cache
                     \subseteq DOMAIN The(active_sessions'[sid]).tool_cache ]_vars

PointIds(points) == {p.id : p \in points}

\* a step that is a successful indexing request repeating the request before
\* it: the same docset, the same content, the same options
Reindexed ==
    /\ building.at = "idle"
    /\ building'.at = "refresh"
    /\ building'.who = "index"
    /\ \A r \in rag_in' : r.ok /\ r.prev = {request(r)}

\* C25: indexing a docset again with unchanged content leaves the collection
\* with the set of point ids it had after the first time, and with as many
\* points.
C25_ReindexKeepsIds ==
    [][ Reindexed => /\ PointIds(qdrant') = PointIds(qdrant)
                     /\ Cardinality(qdrant') = Cardinality(qdrant) ]_vars

\* the docs docset has been indexed twice in a row with the content v1, next
\* to the points of the other docset
C25_Witness ==
    /\ \E r \in rag_in :
        /\ r.docset = "docs" /\ r.root = "v1" /\ r.ok /\ ~r.recreate
        /\ r.prev = {request(r)}
    /\ building.at = "refresh"
    /\ \E p \in qdrant : p.docset = "qdrant_embedding_docs"

(***************************************************************************)
(* Properties of the BM25 search and of the hybrid search.                 *)
(***************************************************************************)
\* the ids of a list of hits, in order
HitIds(hits) == [n \in DOMAIN hits |-> hits[n].id]

\* a filter clause holds for a payload: the payload has the field and one of
\* the candidates matches it
ClauseHolds(payload, k, cands) ==
    /\ field_of(k) \in DOMAIN payload
    /\ \E c \in DOMAIN cands :
        \/ op_of(k) = "eq" /\ payload[field_of(k)] = cands[c]
        \/ op_of(k) = "prefix" /\ startswith(payload[field_of(k)], cands[c])
        \/ op_of(k) = "contains" /\ contains(payload[field_of(k)], cands[c])

Passes(payload, filters) ==
    \A k \in DOMAIN filters : ClauseHolds(payload, k, filters[k])

\* how many documents of positive score the index ranks before its n-th one:
\* those of a higher score, and those of the same score that come earlier
RankedBefore(docs, n) ==
    Cardinality({m \in DOMAIN docs :
        /\ docs[m].score > 0
        /\ \/ docs[m].score > docs[n].score
           \/ docs[m].score = docs[n].score /\ m < n})

\* the documents search has to return: positive score, among the top_k, and
\* passing every clause
Due(q) ==
    {n \in DOMAIN q.docs :
        /\ q.docs[n].score > 0
        /\ RankedBefore(q.docs, n) < q.top_k
        /\ Passes(q.docs[n].payload, q.filters)}

\* C27: BM25 search returns exactly the documents of positive score that are
\* among the top_k by score and pass every filter clause, each once, with its
\* score, in descending order of score; a document ranked below top_k is not
\* returned, whatever the filters removed above it.
C27_TopKThenFilters ==
    \A q \in rag_in : \A o \in rag_out :
        /\ {o.hits[n].id : n \in DOMAIN o.hits} = {q.docs[n].id : n \in Due(q)}
        /\ Len(o.hits) = Cardinality(Due(q))
        /\ \A n \in DOMAIN o.hits : \E m \in Due(q) :
            /\ q.docs[m].id = o.hits[n].id
            /\ q.docs[m].score = o.hits[n].bm25_score
        /\ \A a, b \in DOMAIN o.hits : a < b => o.hits[a].bm25_score >= o.hits[b].bm25_score

\* a search has returned a hit, one of the top_k documents was filtered out,
\* and a document that passes the filters was left out for its rank
C27_Witness ==
    \E q \in rag_in : \E o \in rag_out :
        /\ o.hits # << >>
        /\ \E n \in DOMAIN q.docs :
            /\ q.docs[n].score > 0
            /\ RankedBefore(q.docs, n) < q.top_k
            /\ ~Passes(q.docs[n].payload, q.filters)
        /\ \E n \in DOMAIN q.docs :
            /\ q.docs[n].score > 0
            /\ RankedBefore(q.docs, n) >= q.top_k
            /\ Passes(q.docs[n].payload, q.filters)

\* exactly one of the two hit lists of a hybrid search has hits
OneList(o) == (o.vec_hits = << >>) # (o.bm_hits = << >>)

TheList(o) == IF o.bm_hits = << >> THEN o.vec_hits ELSE o.bm_hits

\* the equality of two fractions
SameFrac(f, g) == f.n * g.d = g.n * f.d

\* C26: when only one of the two hit lists has hits, hybrid search returns
\* hits of that list in the order of that list, for both fusions: a hit of
\* the list is left out only when it fails the filters or when top_k hits
\* ranked before it are returned.  With RRF the score of a hit is the sum of
\* weight / (rrf_k + rank) over the lists that hold it, and nothing for a
\* list that does not.
C26_OneListKeepsOrder ==
    \A q \in rag_in : \A o \in rag_out :
        /\ OneList(o) =>
            /\ \A n \in DOMAIN o.hits : rank_in(TheList(o), o.hits[n].id) # 0
            /\ \A a, b \in DOMAIN o.hits :
                a < b => rank_in(TheList(o), o.hits[a].id) < rank_in(TheList(o), o.hits[b].id)
            /\ \A n \in DOMAIN TheList(o) :
                (/\ Passes(TheList(o)[n].payload, q.filters)
                 /\ \A a \in DOMAIN o.hits : o.hits[a].id # TheList(o)[n].id)
                    => /\ Len(o.hits) = q.top_k
                       /\ \A a \in DOMAIN o.hits : rank_in(TheList(o), o.hits[a].id) < n
        /\ q.fusion = "rrf" =>
            \A n \in DOMAIN o.hits :
                LET vr == rank_in(o.vec_hits, o.hits[n].id)
                    br == rank_in(o.bm_hits, o.hits[n].id)
                IN  /\ (vr # 0 /\ br = 0) =>
                        SameFrac(o.hits[n].score, Frac(q.alpha, rrf_k + vr))
                    /\ (vr = 0 /\ br # 0) =>
                        SameFrac(o.hits[n].score, Frac(10 - q.alpha, rrf_k + br))
                    /\ (vr # 0 /\ br # 0) =>
                        SameFrac(o.hits[n].score,
                                 plus(Frac(q.alpha, rrf_k + vr), Frac(10 - q.alpha, rrf_k + br)))

\* a hybrid search with three BM25 hits and no vector hit has returned two
\* of them, fused with RRF
C26_Witness ==
    \E q \in rag_in : \E o \in rag_out :
        /\ o.vec_hits = << >>
        /\ Len(o.bm_hits) = 3
        /\ Len(o.hits) = 2
        /\ q.fusion = "rrf"
        /\ q.alpha = 6

\* the same with three vector hits, no BM25 hit, and min-max fusion
C26_WitnessMinMax ==
    \E q \in rag_in : \E o \in rag_out :
        /\ o.bm_hits = << >>
        /\ Len(o.vec_hits) = 3
        /\ Len(o.hits) = 2
        /\ q.fusion = "minmax"
        /\ o.vec_hits[1].vector_score > o.vec_hits[3].vector_score

\* the place of an id in the order of ids
IdRank(id) == CASE id = "d1" -> 1 [] id = "d2" -> 2 [] OTHER -> 3

\* C31: hybrid search returns at most top_k hits, in descending order of
\* their fused score, and hits of equal fused score in the order of their ids.
C31_DescendingTiesById ==
    \A q \in rag_in : \A o \in rag_out :
        /\ Len(o.hits) <= q.top_k
        /\ \A a, b \in DOMAIN o.hits :
            a < b => /\ ~less(o.hits[a].score, o.hits[b].score)
                     /\ SameFrac(o.hits[a].score, o.hits[b].score)
                            => IdRank(o.hits[a].id) < IdRank(o.hits[b].id)

\* the same without the order of ties: at most top_k hits in descending
\* order of their fused score
DescendingTopK ==
    \A q \in rag_in : \A o \in rag_out :
        /\ Len(o.hits) <= q.top_k
        /\ \A a, b \in DOMAIN o.hits : a < b => ~less(o.hits[a].score, o.hits[b].score)

(***************************************************************************)
(* execute_plan: what the loop records.                                    *)
(***************************************************************************)
\* the error observations made so far
Errors == {n \in DOMAIN observations : observations[n].kind = "error"}

\* C32: while execute_plan runs, every step, a replan restart included, leaves
\* the observations made so far as they are and in their place, and a list
\* whose plan was replaced still holds an error for every replacement.
C32_ObservationsOnlyGrow ==
    [][(pc = "exec" /\ pc' \in {"exec", "final"})
          => /\ IsPrefix(observations, observations')
             /\ Cardinality({n \in DOMAIN observations' :
                                observations'[n].kind = "error"}) >= replans']_vars

\* execute_plan has returned after a replan, with the error that caused it
\* followed by the observations of the new plan
C32_Witness ==
    /\ pc = "final"
    /\ replans >= 1
    /\ \E n \in Errors : n < Len(observations)

\* the task at hand is a tool task that the planner left without arguments
NeedsArgs == Running /\ tool_of(Task) # "none" /\ Task.args = << >>

\* C33: a tool task with empty args has its args filled by the delegate before
\* the cache is read, and the step of the executor on it ends in a cache hit or
\* a downstream call, with an observation for the task.
C33_EmptyArgsAreFilled ==
    [][(NeedsArgs /\ trace' # trace)
          => /\ pc' = "exec"
             /\ Len(observations') = Len(observations) + 1
             /\ observations'[Len(observations')].task_id = Task.id
             /\ observations'[Len(observations')].kind \in {"result", "error"}]_vars

(***************************************************************************)
(* OtherSessionSpec: the requests of session s1 served while another       *)
(* session, s2, holds a cached weather result of its own.  The history     *)
(* `stored` keeps what the executor stored for s1.                         *)
(***************************************************************************)
\* the result the downstream gave to session s2
OtherResult == "other"

\* the store after a request of s2 that cached the weather of seoul
InitOtherSession ==
    /\ now = 0
    /\ ticks = 0
    /\ sessions =
          [sid \in {"s1", "s2"} |->
              IF sid = "s2"
              THEN Some([last_activity |-> 0, turns |-> 1,
                         tool_cache |->
                            cache_store(<< >>, make_cache_key(Weather.tool, Weather.args),
                                        OtherResult, 0)])
              ELSE None]
    /\ stored = << >>
    /\ InitProbe /\ InitReq /\ InitCtx /\ InitCls /\ InitRag
    /\ llm = TRUE
    /\ tin = << >>
    /\ tout = Unsorted

OtherSessionSpec == InitOtherSession /\ [][Next]_vars

\* the tool cache of a session, empty for a session that does not exist
CacheOf(sid) == IF sessions[sid] = None THEN << >> ELSE The(sessions[sid]).tool_cache

\* the entry is what a successful call of the session's executor stored
StoredByCall(cache_key, entry) ==
    \E c \in DOMAIN stored :
        /\ c = Canon(cache_key.tool, cache_key.args_s)
        /\ stored[c] = [at |-> entry.ts, value |-> entry.value]

\* C34: every entry of a session's tool cache is the result of a successful
\* downstream call made in that session for that tool and those arguments, a
\* failed call leaves no entry, and an observation answered from the cache
\* carries such a result, never an error and never the result of another
\* session.
C34_CacheHoldsOwnResults ==
    /\ \A cache_key \in DOMAIN CacheOf(TheSession) :
          StoredByCall(cache_key, CacheOf(TheSession)[cache_key])
    /\ last.kind = "call_fail" =>
          \/ make_cache_key(last.call.tool, observations[Len(observations)].args)
                \notin DOMAIN CacheOf(TheSession)
          \/ last.prior # None
    /\ last.kind = "cached" =>
          /\ last.prior # None
          /\ observations[Len(observations)].kind = "result"
          /\ observations[Len(observations)].result = Some(The(last.prior).value)
          /\ observations[Len(observations)].result # Some(OtherResult)

\* a call that failed earlier in the request and succeeded after a replan is
\* answered from the cache, while s2 holds its own result for the same call
C34_Witness ==
    /\ last.kind = "cached"
    /\ \E n \in Errors :
          Canon(observations[n].tool, observations[n].args) = last.call
    /\ make_cache_key(Weather.tool, Weather.args) \in DOMAIN CacheOf("s2")
    /\ last.call = Canon(Weather.tool, Weather.args)

\* the weather call of s1 has failed while s2 holds a result for it, and the
\* cache of s1 has no entry for it
C34_WitnessFailed ==
    /\ last.kind = "call_fail"
    /\ last.call = Canon(Weather.tool, Weather.args)
    /\ make_cache_key(Weather.tool, Weather.args) \in DOMAIN CacheOf("s2")
    /\ make_cache_key(Weather.tool, Weather.args) \notin DOMAIN CacheOf(TheSession)

\* the steps of the loop since the last adopted replan, or since the plan
SinceAdoption ==
    LET marks == {n \in DOMAIN trace : trace[n] \in {"plan", "adopt"}}
        from  == IF marks = {} THEN 0 ELSE CHOOSE n \in marks : \A m \in marks : m <= n
    IN  SubSeq(trace, from + 1, Len(trace))

\* the observation recorded for the task at position n of the final list,
\* counted from the end of the observations
FinalObservation(n) == observations[Len(observations) - Len(current_tasks) + n]

\* C35: when execute_plan has returned, the steps since the last adopted
\* replan are one per task of the final list, each with an observation for
\* its task, in the order of the list: no task is left without one.
C35_EveryFinalTaskObserved ==
    pc = "final" =>
        /\ Len(SinceAdoption) = Len(current_tasks)
        /\ \A n \in DOMAIN SinceAdoption : SinceAdoption[n] \in {"note", "tool"}
        /\ Len(observations) >= Len(current_tasks)
        /\ \A n \in DOMAIN current_tasks :
              /\ FinalObservation(n).task_id = current_tasks[n].id
              /\ FinalObservation(n).tool = tool_of(current_tasks[n])
              /\ FinalObservation(n).kind \in {"note", "result", "error"}

\* execute_plan has returned a replanned list of two tasks whose first failed
\* and whose second, which depends on it, has its own observation
C35_Witness ==
    /\ pc = "final"
    /\ replans >= 1
    /\ Len(current_tasks) = 2
    /\ FinalObservation(1).kind = "error"
    /\ \E d \in DOMAIN current_tasks[2].depends_on :
          current_tasks[2].depends_on[d] = current_tasks[1].id

(***************************************************************************)
(* rag-service: the BM25 corpus against the collection.                    *)
(***************************************************************************)
\* no index request and no rebuild is under way
Quiescent == building.at = "idle" /\ bm25_lock = "free"

\* the ids of the documents of the BM25 index
CorpusIds == {bm25[n] : n \in DOMAIN bm25}

\* C36: once the operations issued so far have finished, the BM25 corpus
\* holds exactly the ids of the points of the collection.
C36_CorpusEqualsStore ==
    Quiescent => CorpusIds = PointIds(qdrant)

\* one half of it: a corpus that was built holds every point of the collection
StoreWithinCorpus ==
    (Quiescent /\ bm25 # << >>) => PointIds(qdrant) \subseteq CorpusIds

\* a rebuild from the collection and the index requests that ran during it
\* have all finished
BothFinished == Quiescent /\ ensuring.at = "idle" /\ ensuring.overlapped

C38_LookupLeavesSessionsAlone ==
    [][ nops' # nops =>
          \A sid \in CtxSessionIds :
             IF active_sessions[sid] # None
             THEN /\ active_sessions'[sid] = active_sessions[sid]
                  /\ context_windows'[sid] = context_windows[sid]
             ELSE IF active_sessions'[sid] = None
             THEN context_windows'[sid] = context_windows[sid]
             ELSE /\ \A g \in got' : g.session_id = sid
                  /\ active_sessions'[sid] =
                        Some([last_activity |-> now, conversation_turns |-> << >>,
                              tool_cache |-> << >>])
                  /\ context_windows'[sid] = Some(<< >>) ]_vars

\* a lookup has hit the entry of a session that has turns and whose last
\* activity lies in the past, while the other session is unknown
C38_Witness ==
    \E g \in got : \E other \in CtxSessionIds :
        /\ g.res # None
        /\ Len(HistoryOf(g.session_id)) > 0
        /\ The(active_sessions[g.session_id]).last_activity < now
        /\ other # g.session_id
        /\ active_sessions[other] = None

\* a lookup for an unknown id has created the empty session, after the clock
\* has moved
C38_WitnessCreated ==
    \E g \in got :
        /\ g.res = None
        /\ now > 0
        /\ active_sessions[g.session_id] =
              Some([last_activity |-> now, conversation_turns |-> << >>,
                    tool_cache |-> << >>])
        /\ context_windows[g.session_id] = Some(<< >>)

(***************************************************************************)
(* The streaming handler and the turns of its session.                     *)
(***************************************************************************)
\* a step of the streaming handler, as opposed to the clock and the sweep
StreamStep == pc' # pc \/ trace' # trace \/ events' # events

\* C39: no step of a streaming request appends a turn: the session of the
\* stream has after every step of the handler, the last one included, the
\* turns it had before it, on the LLM-enabled path and in the rule-based
\* branches.
C39_StreamAppendsNoTurn ==
    [][StreamStep => Turns' = Turns]_vars

\* an LLM-enabled stream has ended with its done event, after a tool call,
\* on a session that holds the two turns it held before
C39_Witness ==
    /\ pc = "done" /\ outcome = "response" /\ llm
    /\ Count("final") = 1 /\ Count("tool") >= 1
    /\ DoneEvents = {Len(events)}
    /\ Turns = 2

\* a rule-based stream has ended after its downstream call on such a session
C39_WitnessRule ==
    /\ pc = "done" /\ outcome = "response" /\ ~llm
    /\ Count("rule_call") >= 1
    /\ DoneEvents = {Len(events)}
    /\ Turns = 2

\* C40: in the LLM-enabled stream the events of the tasks are all emitted with
\* the plan, before the executor has made a call or an observation, the last
\* of them with completed equal to the length of the todo; the executor emits
\* nothing; and the last event carries the todo of the plan-ready event, also
\* when a replan has replaced the tasks.
C40_ProgressBeforeExecution ==
    [][ /\ (pc = "plan" /\ pc' = "exec") =>
              /\ Len(events') = Len(events) + 2 + Len(current_tasks')
              /\ events'[Len(events) + 2].todo = todo'
              /\ events'[Len(events')].todo = todo'
              /\ events'[Len(events')].completed = Len(todo')
              /\ calls' = << >> /\ observations' = << >>
        /\ (pc = "exec" /\ pc' \in {"exec", "final"}) => events' = events
        /\ (pc = "final" /\ pc' = "done") =>
              /\ events'[Len(events')].done
              /\ events'[Len(events')].todo = events[3].todo
              /\ events'[Len(events')].completed = Len(events[3].todo) ]_vars

\* a stream has ended after a tool call and a replan that replaced the tasks
\* by tasks with other texts, and its last event lists the first plan
C40_Witness ==
    /\ pc = "done" /\ outcome = "response" /\ Count("final") = 1
    /\ replans >= 1
    /\ Len(calls) >= 1
    /\ task_texts(current_tasks) # LastEvent.todo
    /\ LastEvent.todo = events[3].todo
    /\ Len(events) = 4 + Len(LastEvent.todo)

(***************************************************************************)
(* TopoSpec: the sorter applied to every small task list.                  *)
(***************************************************************************)
\* sequences over S of length 0..n
SeqUpTo(S, n) == UNION {[1..k -> S] : k \in 0..n}

NoRepeat(s) == \A n, m \in DOMAIN s : n # m => s[n] # s[m]

DepLists == {d \in SeqUpTo(Ids, MaxDeps) : NoRepeat(d)}

\* the part of a task the sorter reads; a task without id is dropped unread
TopoShapes ==
    [id : Ids, depends_on : DepLists] \cup {[id |-> NoId, depends_on |-> <<>>]}

\* the text of a task names its position, so equal shapes stay distinguishable
IdOrder == <<"a", "b", "c">>
UsedIds(tasks) == {tasks[n].id : n \in DOMAIN tasks} \ {NoId}
FreshIds(tasks) ==
    {NoId} \cup UsedIds(tasks)
           \cup {IdOrder[n] : n \in {m \in DOMAIN IdOrder : m = Cardinality(UsedIds(tasks)) + 1}}

InitTopo ==
    /\ tin = <<>>
    /\ tout = Unsorted
    /\ InitStore
    /\ InitProbe
    /\ InitReq
    /\ InitCtx
    /\ InitCls
    /\ InitRag
    /\ llm = FALSE

\* the planner's list grows by one task
AddTask ==
    /\ tout = Unsorted
    /\ Len(tin) < MaxTasks
    /\ \E s \in TopoShapes :
          /\ s.id \in FreshIds(tin)
          /\ tin' = Append(tin, [id |-> s.id, text |-> ToString(Len(tin) + 1),
                   tool |-> "none",
                              args |-> <<>>, depends_on |-> s.depends_on])
    /\ UNCHANGED <<ctxVars, tout, storeVars, probeVars, reqVars, clsVars, ragVars>>

TopoSort ==
    /\ tout = Unsorted
    /\ tout' = agentic_topo_sort(tin)
    /\ UNCHANGED <<ctxVars, tin, storeVars, probeVars, reqVars, clsVars, ragVars>>

NextTopo == AddTask \/ TopoSort

TopoSpec == InitTopo /\ [][NextTopo]_vars

(***************************************************************************)
(* Properties of the sorter.                                               *)
(***************************************************************************)
Range(s) == {s[n] : n \in DOMAIN s}

\* the ids a task depends on that name a task of the list
KnownDeps(tasks, tid) ==
    {d \in Range(by_id_get(tasks, tid).depends_on) : by_id_has(tasks, d)}

RECURSIVE TransDepsFrom(_, _, _)
TransDepsFrom(tasks, frontier, acc) ==
    IF frontier \subseteq acc THEN acc
    ELSE LET new == frontier \ acc
         IN TransDepsFrom(tasks, UNION {KnownDeps(tasks, d) : d \in new}, acc \cup new)

\* the ids tid depends on, directly or transitively
TransDeps(tasks, tid) == TransDepsFrom(tasks, KnownDeps(tasks, tid), {})

Acyclic(tasks) == \A tid \in UsedIds(tasks) : tid \notin TransDeps(tasks, tid)

UniqueIds(tasks) ==
    /\ \A n \in DOMAIN tasks : tasks[n].id # NoId
    /\ \A n, m \in DOMAIN tasks : n # m => tasks[n].id # tasks[m].id

Occurrences(out, t) == Cardinality({p \in DOMAIN out : out[p] = t})

DepsBefore(tasks, out) ==
    \A p \in DOMAIN out : \A d \in Range(out[p].depends_on) :
        by_id_has(tasks, d) => \E q \in DOMAIN out : q < p /\ out[q].id = d

Sorted == tout # Unsorted

\* C7: for a task list with unique ids and an acyclic dependency graph the
\* sort outputs every task exactly once and every task after all the tasks it
\* depends on.
C7_TopoOrderOnDag ==
    (Sorted /\ UniqueIds(tin) /\ Acyclic(tin)) =>
        /\ Len(tout) = Len(tin)
        /\ \A n \in DOMAIN tin : Occurrences(tout, tin[n]) = 1
        /\ DepsBefore(tin, tout)

\* a sorted DAG of three tasks, one of them with two dependencies, that the
\* sort had to reorder
C7_Witness ==
    /\ Sorted /\ UniqueIds(tin) /\ Acyclic(tin)
    /\ Len(tin) = 3
    /\ \E n \in DOMAIN tin : Len(tin[n].depends_on) = 2
                             /\ Range(tin[n].depends_on) \subseteq UsedIds(tin)
    /\ tout # tin

\* the task at the highest position among those carrying the id
LastWithId(tasks, tid) ==
    LET at == {n \in DOMAIN tasks : tasks[n].id = tid}
    IN tasks[CHOOSE n \in at : \A m \in at : m <= n]

\* C8 as stated: for any task list the sort returns (TopoSort has a successor
\* for every list: its only guard is that the list is not sorted yet) and
\* outputs each task that has an id exactly once.
C8_EachTaskWithIdOnce ==
    Sorted => \A n \in DOMAIN tin : tin[n].id # NoId => Occurrences(tout, tin[n]) = 1

\* C8 amended: for any task list, cyclic or not, the sort returns and outputs
\* exactly one task for every distinct id, the last task of the list that
\* carries the id, and nothing else.
C8_OneTaskPerId ==
    Sorted =>
        /\ \A tid \in UsedIds(tin) : Occurrences(tout, LastWithId(tin, tid)) = 1
        /\ Len(tout) = Cardinality(UsedIds(tin))

\* a sorted list with a dependency cycle, a self-dependency, a dependency on
\* an unknown id or a repeated id
C8_Witness ==
    /\ Sorted
    /\ ~Acyclic(tin)
    /\ \E n, m \in DOMAIN tin : n # m /\ tin[n].id = tin[m].id /\ tin[n].id # NoId
    /\ \E n \in DOMAIN tin : \E d \in Range(tin[n].depends_on) : ~by_id_has(tin, d)

PosIn(s, t) == CHOOSE p \in DOMAIN s : s[p] = t

Independent(tasks, x, y) ==
    /\ x \notin TransDeps(tasks, y)
    /\ y \notin TransDeps(tasks, x)

\* C9: the sort keeps the input order of any two tasks neither of which
\* depends, directly or transitively, on the other.
C9_IndependentsKeepOrder ==
    (Sorted /\ UniqueIds(tin) /\ Acyclic(tin)) =>
        \A n, m \in DOMAIN tin :
            (n < m /\ Independent(tin, tin[n].id, tin[m].id))
                => PosIn(tout, tin[n]) < PosIn(tout, tin[m])

====
